---- MODULE Spec2Model ----
(***************************************************************************)
(* A model of the analytical core of the XAU/USD trading dashboard:        *)
(* SignalGenerator (signal_generator.py), TechnicalIndicators              *)
(* (technical_indicators.py), PatternDetection (pattern_detection.py) and  *)
(* the analyze_data driver of app.py.                                      *)
(*                                                                         *)
(* Numbers.  Prices and indicator values are integers.  A cell of a data   *)
(* frame is a tagged value: a number, NaN (an undefined indicator: every   *)
(* comparison with it is false) or None (a non-numeric cell: a comparison  *)
(* or an arithmetic operation on it raises TypeError).  Signal strengths   *)
(* are counted in HALVES, so the code's weights 0.5, 1 and 1.5 are 1, 2    *)
(* and 3 and the code's "strength >= 2" is ">= 4".  Percentages are whole  *)
(* percents: |x| / c < 0.01 is written 100 * |x| < 1 * c (prices are       *)
(* positive).                                                              *)
(***************************************************************************)
EXTENDS Integers, Sequences, FiniteSets, TLC

VARIABLES
    pc,                 \* position of the running operation
    df,                 \* the caller's data frame object: [columns, rows]
    patterns,           \* the patterns dict handed to generate_signals, in iteration order
    support_resistance, \* the levels dict handed to generate_signals
    config,             \* the configuration the SignalGenerator was constructed with
    signal_data,        \* what generate_signals returned / get_signal_summary is given
    summary,            \* what get_signal_summary returned
    calls,              \* history: what the crossover rule emitted on each analysis call
    fetched,            \* history: the caller's frame as it was when analyze_data was entered
    call,               \* the number of the analyze_data call in progress (or last finished)
    candlestick_patterns,   \* analyze_data's local of that name
    chart_patterns,     \* analyze_data's local of that name
    session,            \* st.session_state
    telegram,           \* history: the calls whose summary was handed to send_signal_alert
    mpp,                \* pattern_recognition's global name mpp: bound or not, and its attributes
    args,               \* the arguments of the library function called, other than the frame
    result,             \* the outcome of the library function called: a value or an exception
    cycles,             \* history: the runs of app.py's script, one record per run
    current_start,      \* get_historical_data's local of that name, as a day number
    all_data,           \* get_historical_data's local of that name: the rows collected
    requests,           \* history: the chunk requests get_historical_data has made
    attempt,            \* the loop variable of working_latest's main
    fetches             \* history: what each call of fetch_gold_data returned

\* the variables only analyze_data uses
app_vars == <<fetched, call, candlestick_patterns, chart_patterns, session, telegram>>

\* the variables of the refresh cycles and of the two fetch loops
run_vars == <<cycles, current_start, all_data, requests, attempt, fetches>>

\* the variables of the functions called outside analyze_data
lib_vars == <<mpp, args, result, run_vars>>

vars == <<pc, df, patterns, support_resistance, config, signal_data, summary, calls,
          fetched, call, candlestick_patterns, chart_patterns, session, telegram,
          mpp, args, result, cycles, current_start, all_data, requests, attempt, fetches>>

----------------------------------------------------------------------------
(* Bounds of the model *)

\* the largest number of entries in the patterns dict
MaxPatterns == 2
\* the largest number of supplied support levels, and of resistance levels
MaxLevels == 2
\* the largest strength (in halves) handed directly to get_signal_summary
MaxStrength == 6
\* the largest number of analysis calls on a growing series
MaxCalls == 5
\* the largest number of bars of a frame handed to analyze_data
MaxBars == 12
\* the largest number of analyze_data calls
MaxAnalyses == 2

----------------------------------------------------------------------------
(* Cells *)

Num(n) == [t |-> "num", v |-> n]
NaN == [t |-> "nan", v |-> 0]
None == [t |-> "none", v |-> 0]
Missing == [t |-> "missing", v |-> 0]

IsNum(a) == a.t = "num"
IsNone(a) == a.t = "none"

\* Python's a < b on float cells that are not None: false when either is NaN
Lt(a, b) == a.t = "num" /\ b.t = "num" /\ a.v < b.v
Gt(a, b) == Lt(b, a)

Abs(x) == IF x < 0 THEN -x ELSE x

----------------------------------------------------------------------------
(* SignalGenerator *)

\* SignalGenerator.__init__: the default configuration
DefaultConfig ==
    [rsi_oversold |-> 30, rsi_overbought |-> 70,
     stoch_oversold |-> 20, stoch_overbought |-> 80,
     lower_touch_percentage |-> 1, upper_touch_percentage |-> 1]

\* a variant that weights the crossover like the RSI rule
Weight_FlatCrossover ==
    [rsi |-> 2, sma |-> 2, macd |-> 2, bb |-> 1, stoch |-> 1,
     pattern |-> 2, support |-> 1, resistance |-> 1]

\* the weight each rule adds to a strength, in halves
Weight ==
    [rsi |-> 2, sma |-> 3, macd |-> 2, bb |-> 1, stoch |-> 1,
     pattern |-> 2, support |-> 1, resistance |-> 1]

\* one element of the signals list: {"type": ..., "reason": ...}; the reason
\* is kept as the rule that wrote it and the name or number it formats
Entry(type, rule, name, val) == [type |-> type, rule |-> rule, name |-> name, val |-> val]

\* buy_strength += w (or sell_strength += w); signals.append(entry)
Fire(acc, type, w, entry) ==
    IF type = "buy"
    THEN [acc EXCEPT !.buy = @ + w, !.signals = Append(@, entry)]
    ELSE [acc EXCEPT !.sell = @ + w, !.signals = Append(@, entry)]

\* an exception inside the try block
Raise(acc) == [acc EXCEPT !.ex = TRUE]

\* the return value of the df.empty path and of the except path
ZeroSignals == [kind |-> "dict", buy |-> Num(0), sell |-> Num(0), signals |-> <<>>]

Empty(d) == Len(d.rows) = 0 \/ d.columns = {}

\* a variant that also fires at the thresholds
RuleRSI_AtThreshold(acc, latest, cols, cfg) ==
    IF "rsi" \notin cols THEN acc
    ELSE IF IsNone(latest["rsi"]) THEN Raise(acc)
    ELSE IF IsNum(latest["rsi"]) /\ latest["rsi"].v <= cfg.rsi_oversold
         THEN Fire(acc, "buy", Weight.rsi, Entry("buy", "rsi", "oversold", latest["rsi"].v))
    ELSE IF IsNum(latest["rsi"]) /\ latest["rsi"].v >= cfg.rsi_overbought
         THEN Fire(acc, "sell", Weight.rsi, Entry("sell", "rsi", "overbought", latest["rsi"].v))
    ELSE acc

\* RSI signals
RuleRSI(acc, latest, cols, cfg) ==
    IF "rsi" \notin cols THEN acc
    ELSE IF IsNone(latest["rsi"]) THEN Raise(acc)
    ELSE IF Lt(latest["rsi"], Num(cfg.rsi_oversold))
         THEN Fire(acc, "buy", Weight.rsi, Entry("buy", "rsi", "oversold", latest["rsi"].v))
    ELSE IF Gt(latest["rsi"], Num(cfg.rsi_overbought))
         THEN Fire(acc, "sell", Weight.rsi, Entry("sell", "rsi", "overbought", latest["rsi"].v))
    ELSE acc

\* the crossover test of the SMA rule
CrossedAbove(prev_fast, prev_slow, curr_fast, curr_slow) ==
    Lt(prev_fast, prev_slow) /\ Gt(curr_fast, curr_slow)

CrossedBelow(prev_fast, prev_slow, curr_fast, curr_slow) ==
    Gt(prev_fast, prev_slow) /\ Lt(curr_fast, curr_slow)

\* SMA crossover
RuleSMA(acc, d, cfg) ==
    IF ~ ("sma_fast" \in d.columns /\ "sma_slow" \in d.columns /\ Len(d.rows) > 1) THEN acc
    ELSE LET n == Len(d.rows)
             curr_fast == d.rows[n]["sma_fast"]
             prev_fast == d.rows[n - 1]["sma_fast"]
             curr_slow == d.rows[n]["sma_slow"]
             prev_slow == d.rows[n - 1]["sma_slow"]
         IN  IF IsNone(prev_fast) \/ IsNone(prev_slow) THEN Raise(acc)
             ELSE IF (Lt(prev_fast, prev_slow) \/ Gt(prev_fast, prev_slow))
                     /\ (IsNone(curr_fast) \/ IsNone(curr_slow)) THEN Raise(acc)
             ELSE IF CrossedAbove(prev_fast, prev_slow, curr_fast, curr_slow)
                  THEN Fire(acc, "buy", Weight.sma, Entry("buy", "sma", "crossed above", 0))
             ELSE IF CrossedBelow(prev_fast, prev_slow, curr_fast, curr_slow)
                  THEN Fire(acc, "sell", Weight.sma, Entry("sell", "sma", "crossed below", 0))
             ELSE acc

\* a variant that takes the first row of the frame as the previous one
RuleMACD_FirstRow(acc, d) ==
    IF ~ ("macd" \in d.columns /\ "macd_signal" \in d.columns) THEN acc
    ELSE IF Len(d.rows) <= 1 THEN acc
    ELSE LET n == Len(d.rows)
             curr_macd == d.rows[n]["macd"]
             curr_sig == d.rows[n]["macd_signal"]
             prev_macd == d.rows[1]["macd"]
             prev_sig == d.rows[1]["macd_signal"]
         IN  IF IsNone(prev_macd) \/ IsNone(prev_sig) THEN Raise(acc)
             ELSE IF (Lt(prev_macd, prev_sig) \/ Gt(prev_macd, prev_sig))
                     /\ (IsNone(curr_macd) \/ IsNone(curr_sig)) THEN Raise(acc)
             ELSE IF Lt(prev_macd, prev_sig) /\ Gt(curr_macd, curr_sig)
                  THEN Fire(acc, "buy", Weight.macd, Entry("buy", "macd", "crossed above", 0))
             ELSE IF Gt(prev_macd, prev_sig) /\ Lt(curr_macd, curr_sig)
                  THEN Fire(acc, "sell", Weight.macd, Entry("sell", "macd", "crossed below", 0))
             ELSE acc

\* MACD signals
RuleMACD(acc, d) ==
    IF ~ ("macd" \in d.columns /\ "macd_signal" \in d.columns) THEN acc
    ELSE IF Len(d.rows) <= 1 THEN acc
    ELSE LET n == Len(d.rows)
             curr_macd == d.rows[n]["macd"]
             curr_sig == d.rows[n]["macd_signal"]
             prev_macd == d.rows[n - 1]["macd"]
             prev_sig == d.rows[n - 1]["macd_signal"]
         IN  IF IsNone(prev_macd) \/ IsNone(prev_sig) THEN Raise(acc)
             ELSE IF (Lt(prev_macd, prev_sig) \/ Gt(prev_macd, prev_sig))
                     /\ (IsNone(curr_macd) \/ IsNone(curr_sig)) THEN Raise(acc)
             ELSE IF Lt(prev_macd, prev_sig) /\ Gt(curr_macd, curr_sig)
                  THEN Fire(acc, "buy", Weight.macd, Entry("buy", "macd", "crossed above", 0))
             ELSE IF Gt(prev_macd, prev_sig) /\ Lt(curr_macd, curr_sig)
                  THEN Fire(acc, "sell", Weight.macd, Entry("sell", "macd", "crossed below", 0))
             ELSE acc

\* a variant that takes the distance as a share of the band
NearBand_ShareOfBand(close, band, pct) ==
    IsNum(close) /\ IsNum(band) /\ 100 * Abs(close.v - band.v) < pct * band.v

\* abs((close - band) / close) < pct, for a positive close
NearBand(close, band, pct) ==
    IsNum(close) /\ IsNum(band) /\ 100 * Abs(close.v - band.v) < pct * close.v

\* Bollinger Bands signals: two independent ifs, so both may fire
RuleBB(acc, latest, cols, cfg) ==
    IF ~ ("bb_upper" \in cols /\ "bb_lower" \in cols /\ "close" \in cols) THEN acc
    ELSE IF IsNone(latest["close"]) \/ IsNone(latest["bb_lower"]) THEN Raise(acc)
    ELSE LET a1 == IF NearBand(latest["close"], latest["bb_lower"], cfg.lower_touch_percentage)
                   THEN Fire(acc, "buy", Weight.bb, Entry("buy", "bb", "lower", 0))
                   ELSE acc
         IN  IF IsNone(latest["bb_upper"]) THEN Raise(a1)
             ELSE IF NearBand(latest["close"], latest["bb_upper"], cfg.upper_touch_percentage)
                  THEN Fire(a1, "sell", Weight.bb, Entry("sell", "bb", "upper", 0))
             ELSE a1

\* Stochastic signals
RuleStoch(acc, latest, cols, cfg) ==
    IF ~ ("stoch_k" \in cols /\ "stoch_d" \in cols) THEN acc
    ELSE LET k == latest["stoch_k"]
             dd == latest["stoch_d"]
             lo == Num(cfg.stoch_oversold)
             hi == Num(cfg.stoch_overbought)
         IN  IF IsNone(k) THEN Raise(acc)
             ELSE IF Lt(k, lo)
                  THEN IF IsNone(dd) THEN Raise(acc)
                       ELSE IF Lt(dd, lo)
                            THEN Fire(acc, "buy", Weight.stoch, Entry("buy", "stoch", "oversold", 0))
                       ELSE IF Gt(k, hi) /\ Gt(dd, hi)
                            THEN Fire(acc, "sell", Weight.stoch, Entry("sell", "stoch", "overbought", 0))
                       ELSE acc
             ELSE IF Gt(k, hi)
                  THEN IF IsNone(dd) THEN Raise(acc)
                       ELSE IF Gt(dd, hi)
                            THEN Fire(acc, "sell", Weight.stoch, Entry("sell", "stoch", "overbought", 0))
                       ELSE acc
             ELSE acc

\* for pattern, direction in patterns.items()
RECURSIVE PatternLoop(_, _, _)
PatternLoop(acc, pats, i) ==
    IF i > Len(pats) THEN acc
    ELSE IF pats[i].direction > 0
         THEN PatternLoop(Fire(acc, "buy", Weight.pattern,
                               Entry("buy", "pattern", pats[i].name, i)), pats, i + 1)
    ELSE IF pats[i].direction < 0
         THEN PatternLoop(Fire(acc, "sell", Weight.pattern,
                               Entry("sell", "pattern", pats[i].name, i)), pats, i + 1)
    ELSE PatternLoop(acc, pats, i + 1)

\* a variant that passes over a dict of one pattern
RulePatterns_MoreThanOne(acc, pats) == IF Len(pats) <= 1 THEN acc ELSE PatternLoop(acc, pats, 1)

\* Add pattern signals if provided
RulePatterns(acc, pats) == IF Len(pats) = 0 THEN acc ELSE PatternLoop(acc, pats, 1)

\* a level: the average of a cluster of swing values, sum / count, kept exact
Level(n) == [num |-> n, den |-> 1]

\* a variant that counts a level on either side of the price
NearSupport_EitherSide(price, level) ==
    /\ IsNum(price)
    /\ 100 * Abs(price.v * level.den - level.num) < price.v * level.den

\* 0 < (current_price - level) / current_price < 0.01
NearSupport(price, level) ==
    /\ IsNum(price)
    /\ 0 < price.v * level.den - level.num
    /\ 100 * (price.v * level.den - level.num) < price.v * level.den

\* 0 < (level - current_price) / current_price < 0.01
NearResistance(price, level) ==
    /\ IsNum(price)
    /\ 0 < level.num - price.v * level.den
    /\ 100 * (level.num - price.v * level.den) < price.v * level.den

RECURSIVE SupportLoop(_, _, _, _)
SupportLoop(acc, price, levels, i) ==
    IF i > Len(levels) THEN acc
    ELSE IF IsNone(price) THEN Raise(acc)
    ELSE IF NearSupport(price, levels[i])
         THEN SupportLoop(Fire(acc, "buy", Weight.support,
                               Entry("buy", "support", "level", levels[i].num \div levels[i].den)),
                          price, levels, i + 1)
    ELSE SupportLoop(acc, price, levels, i + 1)

RECURSIVE ResistanceLoop(_, _, _, _)
ResistanceLoop(acc, price, levels, i) ==
    IF i > Len(levels) THEN acc
    ELSE IF IsNone(price) THEN Raise(acc)
    ELSE IF NearResistance(price, levels[i])
         THEN ResistanceLoop(Fire(acc, "sell", Weight.resistance,
                                  Entry("sell", "resistance", "level", levels[i].num \div levels[i].den)),
                             price, levels, i + 1)
    ELSE ResistanceLoop(acc, price, levels, i + 1)

\* Support/Resistance signals; sr.given is the truth value of the dict
RuleLevels(acc, latest, cols, sr) ==
    IF ~ (sr.given /\ "close" \in cols) THEN acc
    ELSE LET a1 == SupportLoop(acc, latest["close"], sr.support, 1)
         IN  IF a1.ex THEN a1 ELSE ResistanceLoop(a1, latest["close"], sr.resistance, 1)

\* a variant that looks at the levels before the patterns
generate_signals_LevelsFirst(d, pats, sr, cfg) ==
    IF Empty(d) THEN ZeroSignals
    ELSE LET latest == d.rows[Len(d.rows)]
             a0 == [ex |-> FALSE, buy |-> 0, sell |-> 0, signals |-> <<>>]
             a1 == RuleRSI(a0, latest, d.columns, cfg)
             a2 == IF a1.ex THEN a1 ELSE RuleSMA(a1, d, cfg)
             a3 == IF a2.ex THEN a2 ELSE RuleMACD(a2, d)
             a4 == IF a3.ex THEN a3 ELSE RuleBB(a3, latest, d.columns, cfg)
             a5 == IF a4.ex THEN a4 ELSE RuleStoch(a4, latest, d.columns, cfg)
             a6 == IF a5.ex THEN a5 ELSE RuleLevels(a5, latest, d.columns, sr)
             a7 == IF a6.ex THEN a6 ELSE RulePatterns(a6, pats)
         IN  IF a7.ex THEN ZeroSignals
             ELSE [kind |-> "dict", buy |-> Num(a7.buy), sell |-> Num(a7.sell),
                   signals |-> a7.signals]

\* the try block of generate_signals: the rules in the order of the code; once
\* a rule has raised (ex) the rest is skipped, and the strengths and entries
\* are those collected up to the failure
RuleChain(d, pats, sr, cfg) ==
    LET latest == d.rows[Len(d.rows)]
        a0 == [ex |-> FALSE, buy |-> 0, sell |-> 0, signals |-> <<>>]
        a1 == RuleRSI(a0, latest, d.columns, cfg)
        a2 == IF a1.ex THEN a1 ELSE RuleSMA(a1, d, cfg)
        a3 == IF a2.ex THEN a2 ELSE RuleMACD(a2, d)
        a4 == IF a3.ex THEN a3 ELSE RuleBB(a3, latest, d.columns, cfg)
        a5 == IF a4.ex THEN a4 ELSE RuleStoch(a4, latest, d.columns, cfg)
        a6 == IF a5.ex THEN a5 ELSE RulePatterns(a5, pats)
    IN  IF a6.ex THEN a6 ELSE RuleLevels(a6, latest, d.columns, sr)

\* SignalGenerator.generate_signals: an exception in any rule leaves the try
\* block for the except path, which returns zeros and an empty list
generate_signals(d, pats, sr, cfg) ==
    IF Empty(d) THEN ZeroSignals
    ELSE LET a == RuleChain(d, pats, sr, cfg)
         IN  IF a.ex THEN ZeroSignals
             ELSE [kind |-> "dict", buy |-> Num(a.buy), sell |-> Num(a.sell),
                   signals |-> a.signals]

\* signal_data.get(key, 0)
GetOr0(x) == IF x.t = "missing" THEN Num(0) ELSE x

\* the strength, in halves, from which a recommendation is "Strong": the 2 of
\* "buy_strength >= 2"
StrongThreshold == 4

\* Python's a >= b on float cells that are not None
Ge(a, b) == a.t = "num" /\ b.t = "num" /\ a.v >= b.v

\* a variant whose "Strong" test is > 2 instead of >= 2
Classify_StrictStrong(buy_strength, sell_strength) ==
    IF Gt(buy_strength, sell_strength) /\ Gt(buy_strength, Num(StrongThreshold))
    THEN [recommendation |-> "Strong Buy", color |-> "green"]
    ELSE IF Gt(buy_strength, sell_strength)
    THEN [recommendation |-> "Buy", color |-> "lightgreen"]
    ELSE IF Gt(sell_strength, buy_strength) /\ Gt(sell_strength, Num(StrongThreshold))
    THEN [recommendation |-> "Strong Sell", color |-> "red"]
    ELSE IF Gt(sell_strength, buy_strength)
    THEN [recommendation |-> "Sell", color |-> "pink"]
    ELSE [recommendation |-> "Neutral", color |-> "gray"]

\* the if/elif chain of get_signal_summary on two numeric (or NaN) strengths
Classify(buy_strength, sell_strength) ==
    IF Gt(buy_strength, sell_strength) /\ Ge(buy_strength, Num(StrongThreshold))
    THEN [recommendation |-> "Strong Buy", color |-> "green"]
    ELSE IF Gt(buy_strength, sell_strength)
    THEN [recommendation |-> "Buy", color |-> "lightgreen"]
    ELSE IF Gt(sell_strength, buy_strength) /\ Ge(sell_strength, Num(StrongThreshold))
    THEN [recommendation |-> "Strong Sell", color |-> "red"]
    ELSE IF Gt(sell_strength, buy_strength)
    THEN [recommendation |-> "Sell", color |-> "pink"]
    ELSE [recommendation |-> "Neutral", color |-> "gray"]

\* a variant whose except path answers "Neutral"
ErrorSummary_Neutral ==
    [recommendation |-> "Neutral", color |-> "gray",
     buy_strength |-> Num(0), sell_strength |-> Num(0), signals |-> <<>>]

\* the summary of the except path
ErrorSummary ==
    [recommendation |-> "Error", color |-> "gray",
     buy_strength |-> Num(0), sell_strength |-> Num(0), signals |-> <<>>]

\* SignalGenerator.get_signal_summary: signal_data.get raises on a value that
\* is no mapping, and a comparison with a None strength raises
get_signal_summary(sd) ==
    IF sd.kind # "dict" THEN ErrorSummary
    ELSE LET buy_strength == GetOr0(sd.buy)
             sell_strength == GetOr0(sd.sell)
         IN  IF IsNone(buy_strength) \/ IsNone(sell_strength) THEN ErrorSummary
             ELSE LET c == Classify(buy_strength, sell_strength)
                  IN  [recommendation |-> c.recommendation, color |-> c.color,
                       buy_strength |-> buy_strength, sell_strength |-> sell_strength,
                       signals |-> sd.signals]

----------------------------------------------------------------------------
(* Values a variable holds before the operation that sets it has run *)

NoFrame == [columns |-> {}, rows |-> <<>>]
NoLevels == [given |-> FALSE, support |-> <<>>, resistance |-> <<>>]
NoSignalData == [kind |-> "unset", buy |-> Missing, sell |-> Missing, signals |-> <<>>]
NoSummary ==
    [recommendation |-> "unset", color |-> "unset",
     buy_strength |-> Missing, sell_strength |-> Missing, signals |-> <<>>]

\* "Initialize session state": each published field is kept as the number of
\* the analyze_data call whose result it holds, 0 for the initial value
InitialSession(enable_alerts) ==
    [data |-> 0, last_update |-> 0, support_resistance |-> 0, signals |-> 0,
     alert_sent |-> FALSE, enable_alerts |-> enable_alerts]

\* nothing imported, nothing called
NoModule == [bound |-> FALSE, attrs |-> {}]
NoResult == [kind |-> "none"]
NoArgs == [window |-> 0]
\* no script run, no fetch loop entered
NoRun ==
    /\ cycles = <<>>
    /\ current_start = 0
    /\ all_data = <<>>
    /\ requests = <<>>
    /\ attempt = 0
    /\ fetches = <<>>

NoLibraryCall ==
    /\ mpp = NoModule
    /\ args = NoArgs
    /\ result = NoResult
    /\ NoRun

\* the state of analyze_data's variables where analyze_data is not run
NotInAnalyzeData ==
    /\ fetched = NoFrame
    /\ call = 0
    /\ candlestick_patterns = <<>>
    /\ chart_patterns = <<>>
    /\ session = InitialSession(FALSE)
    /\ telegram = <<>>

----------------------------------------------------------------------------
(* Inputs of generate_signals *)

AllColumns ==
    {"close", "rsi", "sma_fast", "sma_slow", "macd", "macd_signal",
     "bb_upper", "bb_lower", "stoch_k", "stoch_d"}

Row(close, rsi, fast, slow, macd, msig, bbu, bbl, k, d) ==
    [close |-> Num(close), rsi |-> Num(rsi), sma_fast |-> Num(fast), sma_slow |-> Num(slow),
     macd |-> Num(macd), macd_signal |-> Num(msig), bb_upper |-> Num(bbu),
     bb_lower |-> Num(bbl), stoch_k |-> Num(k), stoch_d |-> Num(d)]

Frame(rows) == [columns |-> AllColumns, rows |-> rows]

\* a configuration other than the default one
CustomConfig ==
    [rsi_oversold |-> 40, rsi_overbought |-> 60,
     stoch_oversold |-> 30, stoch_overbought |-> 70,
     lower_touch_percentage |-> 2, upper_touch_percentage |-> 3]

RsiValues == {25, 30, 50, 70, 75}
SmaValues == {99, 100, 101}
\* <<previous macd, latest macd>>, the signal line at 0 on both bars
MacdPairs == {<<-1, 1>>, <<1, -1>>, <<0, 1>>, <<1, 1>>}
LowerBands == {980, 990, 995}
UpperBands == {1005, 1020}
\* <<stoch_k, stoch_d>>
StochPairs == {<<10, 10>>, <<10, 50>>, <<20, 20>>, <<50, 50>>, <<90, 90>>}
PatternNames == <<"Hammer", "Double Top", "Doji", "Engulfing Pattern">>
Directions == {-1, 0, 1}
SupportValues == {Level(990), Level(995)}
ResistanceValues == {Level(1005), Level(1010)}

PatternDicts ==
    UNION {{[i \in 1..k |-> [name |-> PatternNames[i], direction |-> f[i]]] :
              f \in [1..k -> Directions]} : k \in 0..MaxPatterns}

LevelLists(values) == UNION {[1..k -> values] : k \in 0..MaxLevels}

LevelDicts ==
    {NoLevels}
    \cup {[given |-> TRUE, support |-> s, resistance |-> r] :
            s \in LevelLists(SupportValues), r \in LevelLists(ResistanceValues)}

QuietRow == Row(1000, 50, 100, 100, 0, 0, 1020, 980, 50, 50)
\* <<previous row, latest row>>: every indicator rule says buy, says sell, is silent
BuyRows == <<Row(1000, 50, 99, 100, -1, 0, 1020, 980, 50, 50),
             Row(1000, 25, 101, 100, 1, 0, 1020, 995, 10, 10)>>
SellRows == <<Row(1000, 50, 101, 100, 1, 0, 1020, 980, 50, 50),
              Row(1000, 75, 99, 100, -1, 0, 1005, 980, 90, 90)>>
QuietRows == <<QuietRow, QuietRow>>
BaseRows == {BuyRows, SellRows, QuietRows}

SomeContexts ==
    {[patterns |-> <<>>, sr |-> NoLevels],
     [patterns |-> <<[name |-> "Double Top", direction |-> -1]>>,
      sr |-> [given |-> TRUE, support |-> <<Level(995)>>, resistance |-> <<Level(1005)>>]]}

\* the arguments of one call: generate_signals(df, patterns, support_resistance)
\* on a SignalGenerator constructed with cfg
Given(d, pats, sr, cfg) ==
    /\ df = d
    /\ patterns = pats
    /\ support_resistance = sr
    /\ config = cfg

\* every combination of the indicator columns the five indicator rules read
IndicatorSweep ==
    \E pf \in SmaValues, cf \in SmaValues, rsi \in RsiValues, m \in MacdPairs,
       bbl \in LowerBands, bbu \in UpperBands, st \in StochPairs, c \in SomeContexts :
       Given(Frame(<<Row(1000, 50, pf, 100, m[1], 0, 1020, 980, 50, 50),
                     Row(1000, rsi, cf, 100, m[2], 0, bbu, bbl, st[1], st[2])>>),
             c.patterns, c.sr, DefaultConfig)

\* every patterns dict and levels dict up to the bounds
ContextSweep ==
    \E rows \in BaseRows, pats \in PatternDicts, sr \in LevelDicts :
       Given(Frame(rows), pats, sr, DefaultConfig)

\* a configuration with other thresholds
ConfigSweep ==
    \E rsi \in RsiValues \cup {35, 65}, bbl \in LowerBands, bbu \in UpperBands \cup {1030},
       st \in StochPairs \cup {<<25, 25>>, <<75, 75>>} :
       Given(Frame(<<QuietRow, Row(1000, rsi, 100, 100, 0, 0, bbu, bbl, st[1], st[2])>>),
             <<>>, NoLevels, CustomConfig)

\* the frame with one column's cell in one row replaced, or one column dropped
WithCell(rows, i, col, cell) == [rows EXCEPT ![i] = [@ EXCEPT ![col] = cell]]
WithoutColumn(rows, col) ==
    [columns |-> AllColumns \ {col},
     rows |-> [i \in 1..Len(rows) |-> [c \in AllColumns \ {col} |-> rows[i][c]]]]

\* undefined (NaN) or non-numeric (None) cells, and absent columns
DefectSweep ==
    \E rows \in BaseRows, col \in AllColumns, c \in SomeContexts :
       \/ \E i \in 1..2, cell \in {NaN, None} :
             Given(Frame(WithCell(rows, i, col, cell)), c.patterns, c.sr, DefaultConfig)
       \/ Given(WithoutColumn(rows, col), c.patterns, c.sr, DefaultConfig)

\* bands far from, near, at and on the other side of the close
BandValues == {950, 980, 990, 995, 1000, 1005, 1010, 1020, 1050}

BandSweep ==
    \E bbl \in BandValues, bbu \in BandValues, cfg \in {DefaultConfig, CustomConfig} :
       Given(Frame(<<QuietRow, Row(1000, 50, 100, 100, 0, 0, bbu, bbl, 50, 50)>>),
             <<>>, NoLevels, cfg)

\* levels below, at and above the close, at 1% from it, nearer and farther,
\* and one that is not a whole number (1991 / 2)
LevelValues ==
    {Level(985), Level(990), Level(995), Level(1000), Level(1005), Level(1010),
     Level(1015), [num |-> 1991, den |-> 2]}

\* the same levels given as supports and as resistances
LevelSweep ==
    \E levels \in LevelLists(LevelValues), pats \in {<<>>, <<[name |-> "Hammer", direction |-> 1]>>} :
       Given(Frame(QuietRows), pats,
             [given |-> TRUE, support |-> levels, resistance |-> levels], DefaultConfig)

\* frames of no row, one row and three rows
LengthSweep ==
    \E c \in SomeContexts :
       \/ \E d \in {NoFrame, Frame(<<>>)} : Given(d, c.patterns, c.sr, DefaultConfig)
       \/ \E rows \in BaseRows :
             Given(Frame(<<rows[2]>>), c.patterns, c.sr, DefaultConfig)
       \/ \E rows \in BaseRows, extra \in BaseRows :
             Given(Frame(<<extra[1], rows[1], rows[2]>>), c.patterns, c.sr, DefaultConfig)

----------------------------------------------------------------------------
(* Inputs of get_signal_summary called on its own *)

SomeEntries ==
    {<<>>, <<Entry("buy", "rsi", "oversold", 25)>>,
     <<Entry("sell", "bb", "upper", 0), Entry("buy", "pattern", "Hammer", 1)>>}

Strengths == {Num(n) : n \in 0..MaxStrength} \cup {NaN, None, Missing}

SummaryInputs ==
    {[kind |-> "dict", buy |-> b, sell |-> s, signals |-> e] :
       b \in Strengths, s \in Strengths, e \in SomeEntries}
    \cup {[kind |-> "none", buy |-> Missing, sell |-> Missing, signals |-> <<>>]}

----------------------------------------------------------------------------
(* Operations *)

\* signals = signal_generator.generate_signals(df, patterns, support_resistance)
GenerateSignals ==
    /\ pc \in {"input", "signals"}
    /\ signal_data' = generate_signals(df, patterns, support_resistance, config)
    /\ pc' = (IF pc = "input" THEN "generated" ELSE "summary")
    /\ UNCHANGED lib_vars
    /\ UNCHANGED <<df, patterns, support_resistance, config, summary, calls, app_vars>>

\* signal_summary = signal_generator.get_signal_summary(signals)
GetSignalSummary ==
    /\ pc \in {"generated", "summary_input", "summary"}
    /\ summary' = get_signal_summary(signal_data)
    /\ pc' = (IF pc = "summary" THEN "pub_data" ELSE "summarised")
    /\ UNCHANGED lib_vars
    /\ UNCHANGED <<df, patterns, support_resistance, config, signal_data, calls, app_vars>>

----------------------------------------------------------------------------
(* SpecSignals: generate_signals, then get_signal_summary, on every input *)

InitSignals ==
    /\ NoLibraryCall
    /\ pc = "input"
    /\ (IndicatorSweep \/ ContextSweep \/ ConfigSweep \/ DefectSweep \/ LengthSweep
           \/ BandSweep \/ LevelSweep)
    /\ signal_data = NoSignalData
    /\ summary = NoSummary
    /\ calls = <<>>
    /\ NotInAnalyzeData

NextSignals == GenerateSignals \/ GetSignalSummary

SpecSignals == InitSignals /\ [][NextSignals]_vars

----------------------------------------------------------------------------
(* SpecSummary: get_signal_summary on every signal_data, malformed included *)

InitSummary ==
    /\ NoLibraryCall
    /\ pc = "summary_input"
    /\ df = NoFrame
    /\ patterns = <<>>
    /\ support_resistance = NoLevels
    /\ config = DefaultConfig
    /\ signal_data \in SummaryInputs
    /\ summary = NoSummary
    /\ calls = <<>>
    /\ NotInAnalyzeData

NextSummary == GetSignalSummary

SpecSummary == InitSummary /\ [][NextSummary]_vars

----------------------------------------------------------------------------
(* SpecCross: one analysis call per bar of a growing series.  Each refresh
   cycle fetches the series again, one bar longer, and runs generate_signals
   on it; only the two moving-average columns are followed. *)

HasEntry(sigs, type, rule) == \E i \in 1..Len(sigs) : sigs[i].type = type /\ sigs[i].rule = rule

CrossColumns == {"sma_fast", "sma_slow"}
CrossFast == {NaN, Num(99), Num(100), Num(101)}
CrossSlow == {NaN, Num(100)}

\* an SMA is undefined on the first bars only, the slow one at least as long
\* as the fast one
SmaBarAllowed(rows, fast, slow) ==
    /\ fast = NaN => slow = NaN
    /\ fast = NaN => (IF Len(rows) = 0 THEN TRUE ELSE rows[Len(rows)]["sma_fast"] = NaN)
    /\ slow = NaN => (IF Len(rows) = 0 THEN TRUE ELSE rows[Len(rows)]["sma_slow"] = NaN)

\* update_data: the next refresh cycle analyses the series with its new bar
AnalysisCall ==
    /\ pc = "cycle"
    /\ Len(df.rows) < MaxCalls
    /\ \E fast \in CrossFast, slow \in CrossSlow :
          /\ SmaBarAllowed(df.rows, fast, slow)
          /\ df' = [columns |-> CrossColumns,
                    rows |-> Append(df.rows, [sma_fast |-> fast, sma_slow |-> slow])]
    /\ signal_data' = generate_signals(df', patterns, support_resistance, config)
    /\ calls' = Append(calls, [buy |-> HasEntry(signal_data'.signals, "buy", "sma"),
                               sell |-> HasEntry(signal_data'.signals, "sell", "sma")])
    /\ UNCHANGED lib_vars
    /\ UNCHANGED <<pc, patterns, support_resistance, config, summary, app_vars>>

InitCross ==
    /\ NoLibraryCall
    /\ pc = "cycle"
    /\ df = [columns |-> CrossColumns, rows |-> <<>>]
    /\ patterns = <<>>
    /\ support_resistance = NoLevels
    /\ config = DefaultConfig
    /\ signal_data = NoSignalData
    /\ summary = NoSummary
    /\ calls = <<>>
    /\ NotInAnalyzeData

NextCross == AnalysisCall

SpecCross == InitCross /\ [][NextCross]_vars

----------------------------------------------------------------------------
(* TechnicalIndicators.  Prices are whole numbers; a column the library
   fills is NaN on the rows before it has enough bars. *)

\* the sidebar's settings read by analyze_data through st.session_state.get:
\* the smallest period each number_input admits, the threshold in percent,
\* the alert threshold in halves
Settings ==
    [sma_fast |-> 5, sma_slow |-> 20, sma_long |-> 200, ema_fast |-> 3, ema_slow |-> 10,
     rsi_period |-> 7, macd_fast |-> 8, macd_slow |-> 15, macd_signal |-> 5,
     bbands_period |-> 10, bbands_dev |-> 2,
     sr_window |-> 5, sr_threshold |-> 2, pattern_lookback |-> 10,
     alert_threshold |-> 4]

\* the columns add_indicators writes up to the Bollinger bands, and after them
FirstColumns ==
    {"sma_fast", "sma_slow", "sma_long", "ema_fast", "ema_slow", "rsi",
     "macd", "macd_signal", "macd_hist", "bb_upper", "bb_middle", "bb_lower"}
LastColumns == {"atr", "stoch_k", "stoch_d"}

\* a number of the library that the model does not compute and no rule reads
LibValue == [t |-> "lib", v |-> 0]

Column(d, col) == [i \in 1..Len(d.rows) |-> d.rows[i][col]]

AllNum(xs, from, to) == \A j \in from..to : IsNum(xs[j])

RECURSIVE WindowSum(_, _, _)
WindowSum(xs, from, to) ==
    IF from > to THEN 0 ELSE xs[from].v + WindowSum(xs, from + 1, to)

\* the sum of the squares of the window's distances from its first value
RECURSIVE WindowSquares(_, _, _, _)
WindowSquares(xs, first, from, to) ==
    IF from > to THEN 0
    ELSE (xs[from].v - xs[first].v) * (xs[from].v - xs[first].v)
         + WindowSquares(xs, first, from + 1, to)

\* the whole part of a square root
ISqrt(x) == CHOOSE r \in 0..x : r * r <= x /\ x < (r + 1) * (r + 1)

\* talib.SMA(close, timeperiod)[i]
SMA(xs, period, i) ==
    IF i < period \/ ~ AllNum(xs, i - period + 1, i) THEN NaN
    ELSE Num(WindowSum(xs, i - period + 1, i) \div period)

\* period times the standard deviation of the window that ends at row i:
\* sqrt(period * sum of squares - square of sum), taken about the first value
WindowDeviation(xs, period, i) ==
    LET first == i - period + 1
        sq == WindowSquares(xs, first, first, i)
        su == WindowSum(xs, first, i) - period * xs[first].v
    IN  ISqrt(period * sq - su * su)

\* talib.BBANDS(close, timeperiod, nbdevup, nbdevdn)[i]: middle +- dev * stddev
BBANDS(xs, period, dev, i) ==
    IF i < period \/ ~ AllNum(xs, i - period + 1, i)
    THEN [upper |-> NaN, middle |-> NaN, lower |-> NaN]
    ELSE LET su == WindowSum(xs, i - period + 1, i)
             sd == WindowDeviation(xs, period, i)
         IN  [upper |-> Num((su + dev * sd) \div period),
              middle |-> Num(su \div period),
              lower |-> Num((su - dev * sd) \div period)]

\* talib.RSI(close, timeperiod)[i]: 100 * gain / (gain + loss) of the smoothed
\* gains and losses so far; all gain is 100, all loss is 0, neither is the
\* library's answer to 0 / 0
RSI(xs, period, i, zero_over_zero) ==
    IF i <= period \/ ~ AllNum(xs, 1, i) THEN NaN
    ELSE LET rose == \E j \in 2..i : xs[j].v > xs[j - 1].v
             fell == \E j \in 2..i : xs[j].v < xs[j - 1].v
         IN  IF ~ rose /\ ~ fell THEN zero_over_zero
             ELSE IF ~ fell THEN Num(100)
             ELSE IF ~ rose THEN Num(0)
             ELSE LibValue

\* a library column whose numbers the model does not compute: NaN on the
\* first rows, the library's number after them
Later(lookback, i) == IF i <= lookback THEN NaN ELSE LibValue

\* a variant that reads the high and low columns before it writes anything
add_indicators_RangeFirst(d, s, zero_over_zero) ==
    IF Empty(d) THEN d
    ELSE IF ~ ({"high", "low", "close"} \subseteq d.columns) THEN d
    ELSE [columns |-> d.columns \cup FirstColumns \cup LastColumns,
          rows |-> [i \in 1..Len(d.rows) |->
                      [c \in FirstColumns \cup LastColumns |-> NaN] @@ d.rows[i]]]

\* TechnicalIndicators.add_indicators: writes the columns into df itself and
\* returns df; a missing column ends the try block where it is first read
add_indicators(d, s, zero_over_zero) ==
    IF Empty(d) THEN d
    ELSE IF "close" \notin d.columns THEN d
    ELSE LET n == Len(d.rows)
             close == Column(d, "close")
             first(i) ==
                 LET bb == BBANDS(close, s.bbands_period, s.bbands_dev, i)
                 IN  [sma_fast |-> SMA(close, s.sma_fast, i),
                      sma_slow |-> SMA(close, s.sma_slow, i),
                      sma_long |-> SMA(close, s.sma_long, i),
                      ema_fast |-> Later(s.ema_fast - 1, i),
                      ema_slow |-> Later(s.ema_slow - 1, i),
                      rsi |-> RSI(close, s.rsi_period, i, zero_over_zero),
                      macd |-> Later(s.macd_slow + s.macd_signal - 2, i),
                      macd_signal |-> Later(s.macd_slow + s.macd_signal - 2, i),
                      macd_hist |-> Later(s.macd_slow + s.macd_signal - 2, i),
                      bb_upper |-> bb.upper, bb_middle |-> bb.middle, bb_lower |-> bb.lower]
             last(i) == [atr |-> Later(14, i), stoch_k |-> Later(17, i), stoch_d |-> Later(17, i)]
         IN  IF {"high", "low"} \subseteq d.columns
             THEN [columns |-> d.columns \cup FirstColumns \cup LastColumns,
                   rows |-> [i \in 1..n |-> last(i) @@ first(i) @@ d.rows[i]]]
             ELSE [columns |-> d.columns \cup FirstColumns,
                   rows |-> [i \in 1..n |-> first(i) @@ d.rows[i]]]

\* the swing values of a column, in row order: rows whose value is beyond
\* (strictly) every one of the window rows before and after; dir is 1 for a
\* swing high, -1 for a swing low
IsSwing(xs, i, window, dir) ==
    \A j \in 1..window :
        IF dir = 1 THEN Gt(xs[i], xs[i - j]) /\ Gt(xs[i], xs[i + j])
        ELSE Lt(xs[i], xs[i - j]) /\ Lt(xs[i], xs[i + j])

\* for i in range(window, len(df) - window), counted from row 1
RECURSIVE Swings(_, _, _, _)
Swings(xs, i, window, dir) ==
    IF i > Len(xs) - window THEN <<>>
    ELSE IF IsSwing(xs, i, window, dir) THEN <<xs[i].v>> \o Swings(xs, i + 1, window, dir)
    ELSE Swings(xs, i + 1, window, dir)

\* levels.sort()
RECURSIVE Insert(_, _)
Insert(x, s) ==
    IF Len(s) = 0 THEN <<x>>
    ELSE IF x <= Head(s) THEN <<x>> \o s
    ELSE <<Head(s)>> \o Insert(x, Tail(s))

RECURSIVE Sort(_)
Sort(s) == IF Len(s) = 0 THEN <<>> ELSE Insert(Head(s), Sort(Tail(s)))

\* a variant that measures a level against the first value of the current
\* cluster instead of its average
RECURSIVE ClusterLoop_FromFirst(_, _, _, _, _)
ClusterLoop_FromFirst(levels, i, sum, size, threshold_pct) ==
    IF i > Len(levels) THEN <<[num |-> sum, den |-> size]>>
    ELSE IF 100 * (levels[i] - levels[i - size]) <= threshold_pct * levels[i - size]
         THEN ClusterLoop_FromFirst(levels, i + 1, sum + levels[i], size + 1, threshold_pct)
    ELSE <<[num |-> sum, den |-> size]>>
             \o ClusterLoop_FromFirst(levels, i + 1, levels[i], 1, threshold_pct)

\* the loop of cluster_levels over the sorted levels: the current cluster is
\* kept as its sum and its size, its average is sum / size
RECURSIVE ClusterLoop(_, _, _, _, _)
ClusterLoop(levels, i, sum, size, threshold_pct) ==
    IF i > Len(levels) THEN <<[num |-> sum, den |-> size]>>
    ELSE IF 100 * (levels[i] * size - sum) <= threshold_pct * sum
         THEN ClusterLoop(levels, i + 1, sum + levels[i], size + 1, threshold_pct)
    ELSE <<[num |-> sum, den |-> size]>> \o ClusterLoop(levels, i + 1, levels[i], 1, threshold_pct)

\* a variant that takes the levels in the order given
cluster_levels_Unsorted(levels, threshold_pct) ==
    IF Len(levels) = 0 THEN <<>>
    ELSE ClusterLoop(levels, 2, levels[1], 1, threshold_pct)

\* cluster_levels(levels, threshold_pct), the function nested in
\* identify_support_resistance
cluster_levels(levels, threshold_pct) ==
    IF Len(levels) = 0 THEN <<>>
    ELSE LET sorted == Sort(levels)
         IN  ClusterLoop(sorted, 2, sorted[1], 1, threshold_pct)

\* TechnicalIndicators.identify_support_resistance
identify_support_resistance(d, window, threshold) ==
    IF Empty(d) THEN [given |-> TRUE, support |-> <<>>, resistance |-> <<>>]
    ELSE IF Len(d.rows) <= 2 * window
         THEN [given |-> TRUE, support |-> <<>>, resistance |-> <<>>]
    ELSE IF ~ ({"high", "low"} \subseteq d.columns)
         THEN [given |-> TRUE, support |-> <<>>, resistance |-> <<>>]
    ELSE [given |-> TRUE,
          support |-> cluster_levels(Swings(Column(d, "low"), window + 1, window, -1), threshold),
          resistance |-> cluster_levels(Swings(Column(d, "high"), window + 1, window, 1), threshold)]

----------------------------------------------------------------------------
(* PatternDetection *)

Pattern(name, direction) == [name |-> name, direction |-> direction]

\* what the library's candlestick functions report for the latest bar of a
\* frame that is not empty: none, or one of these (100 bullish, -100 bearish)
CandlestickReports ==
    {<<>>, <<Pattern("Doji", 100)>>, <<Pattern("Engulfing Pattern", -100)>>}

\* a variant without the test for an empty frame, the library reporting
\* a pattern all the same
detect_candlestick_patterns_Unguarded(d, report) ==
    IF Len(d.rows) > 0 /\ ~ ({"open", "high", "low", "close"} \subseteq d.columns) THEN <<>>
    ELSE report

\* PatternDetection.detect_candlestick_patterns: nothing for an empty frame,
\* nothing when a price column is missing, else what the library reports
detect_candlestick_patterns(d, report) ==
    IF Empty(d) THEN <<>>
    ELSE IF ~ ({"open", "high", "low", "close"} \subseteq d.columns) THEN <<>>
    ELSE report

Clip(i, n) == IF i < 1 THEN 1 ELSE IF i > n THEN n ELSE i

\* argrelextrema(values, np.greater or np.less, order): strictly beyond the
\* order neighbours on both sides, a neighbour past an end being the end
IsExtremum(xs, i, order, dir) ==
    \A j \in 1..order :
        IF dir = 1
        THEN xs[i] > xs[Clip(i + j, Len(xs))] /\ xs[i] > xs[Clip(i - j, Len(xs))]
        ELSE xs[i] < xs[Clip(i + j, Len(xs))] /\ xs[i] < xs[Clip(i - j, Len(xs))]

\* section['local_max'].dropna().values, or local_min
RECURSIVE Extrema(_, _, _, _)
Extrema(xs, i, order, dir) ==
    IF i > Len(xs) THEN <<>>
    ELSE IF IsExtremum(xs, i, order, dir) THEN <<xs[i]>> \o Extrema(xs, i + 1, order, dir)
    ELSE Extrema(xs, i + 1, order, dir)

\* abs(a - b) / a < pct percent, for a price a > 0
Within(a, b, pct) == 100 * Abs(a - b) < pct * a

\* PatternDetection.detect_chart_patterns on the closes of the last lookback
\* rows; the patterns in the order the code writes them into the dict
detect_chart_patterns(d, lookback) ==
    IF Empty(d) \/ Len(d.rows) < lookback THEN <<>>
    ELSE IF "close" \notin d.columns THEN <<>>
    ELSE IF ~ AllNum(Column(d, "close"), Len(d.rows) - lookback + 1, Len(d.rows)) THEN <<>>
    ELSE LET n == Len(d.rows)
             section == [i \in 1..lookback |-> d.rows[n - lookback + i]["close"].v]
             maxs == Extrema(section, 1, 5, 1)
             mins == Extrema(section, 1, 5, -1)
             a == Len(maxs)
             b == Len(mins)
             double_top ==
                 IF a >= 2 /\ Within(maxs[a - 1], maxs[a], 2)
                 THEN <<Pattern("Double Top", -1)>> ELSE <<>>
             double_bottom ==
                 IF b >= 2 /\ Within(mins[b - 1], mins[b], 2)
                 THEN <<Pattern("Double Bottom", 1)>> ELSE <<>>
             head ==
                 IF a >= 3 /\ maxs[a - 1] > maxs[a - 2] /\ maxs[a - 1] > maxs[a]
                           /\ Within(maxs[a - 2], maxs[a], 5)
                 THEN <<Pattern("Head and Shoulders", -1)>> ELSE <<>>
             inverse ==
                 IF b >= 3 /\ mins[b - 1] < mins[b - 2] /\ mins[b - 1] < mins[b]
                           /\ Within(mins[b - 2], mins[b], 5)
                 THEN <<Pattern("Inverse Head and Shoulders", 1)>> ELSE <<>>
             ascending ==
                 IF a >= 2 /\ b >= 2 /\ Within(maxs[a - 1], maxs[a], 2) /\ mins[b] > mins[b - 1]
                 THEN <<Pattern("Ascending Triangle", 1)>> ELSE <<>>
             descending ==
                 IF a >= 2 /\ b >= 2 /\ Within(mins[b - 1], mins[b], 2) /\ maxs[a] < maxs[a - 1]
                 THEN <<Pattern("Descending Triangle", -1)>> ELSE <<>>
         IN  double_top \o double_bottom \o head \o inverse \o ascending \o descending

----------------------------------------------------------------------------
(* SpecAnalyze: analyze_data of app.py, one statement after the other, on
   the frames a caller hands it *)

\* the prices of the model's series: every bar opens at base; the latest bar
\* may close move away from it; the first bar that can be a swing may reach
\* wick beyond its body
Prices == [base |-> 1000, move |-> 20, wick |-> 5]

NoWick == [at |-> 0, dir |-> 0]

Max(a, b) == IF a > b THEN a ELSE b
Min(a, b) == IF a < b THEN a ELSE b

Bar(i, n, move, wick) ==
    LET close == Prices.base + (IF i = n THEN move ELSE 0)
        high == Max(Prices.base, close) + (IF wick.at = i /\ wick.dir = 1 THEN Prices.wick ELSE 0)
        low == Min(Prices.base, close) - (IF wick.at = i /\ wick.dir = -1 THEN Prices.wick ELSE 0)
    IN  [open |-> Num(Prices.base), high |-> Num(high), low |-> Num(low),
         close |-> Num(close), volume |-> Num(1)]

PriceColumns == {"open", "high", "low", "close", "volume"}

\* the frame of n bars the data fetcher returns; without rows, or without
\* columns and rows (pd.DataFrame()), it is an empty frame
Series(columns, n, move, wick) ==
    [columns |-> columns, rows |-> [i \in 1..n |-> Bar(i, n, move, wick)]]

\* what the library may answer for an RSI whose gains and losses are all zero
ZeroOverZero == {Num(0), Num(50)}

\* analyze_data(data) is entered: its locals are fresh, data is the caller's
\* frame object
EnterAnalyzeData ==
    /\ pc = "idle"
    /\ call < MaxAnalyses
    /\ \E n \in 0..MaxBars, move \in {-Prices.move, 0, Prices.move},
          wick \in {NoWick} \cup {[at |-> Settings.sr_window + 1, dir |-> s] : s \in {-1, 1}},
          columns \in {PriceColumns, {}} :
          /\ wick.at <= n
          /\ n = 0 => move = 0
          /\ columns = {} => n = 0
          /\ df' = Series(columns, n, move, wick)
          /\ fetched' = Series(columns, n, move, wick)
    /\ call' = call + 1
    /\ pc' = "indicators"
    /\ UNCHANGED lib_vars
    /\ UNCHANGED <<patterns, support_resistance, config, signal_data, summary, calls,
                   candlestick_patterns, chart_patterns, session, telegram>>

\* df_with_indicators = TechnicalIndicators.add_indicators(data, config):
\* df_with_indicators is the object data
AddIndicators ==
    /\ pc = "indicators"
    /\ \E z \in ZeroOverZero : df' = add_indicators(df, Settings, z)
    /\ pc' = "levels"
    /\ UNCHANGED lib_vars
    /\ UNCHANGED <<patterns, support_resistance, config, signal_data, summary, calls, app_vars>>

\* support_resistance = TechnicalIndicators.identify_support_resistance(...)
IdentifySupportResistance ==
    /\ pc = "levels"
    /\ support_resistance' =
           identify_support_resistance(df, Settings.sr_window, Settings.sr_threshold)
    /\ pc' = "candles"
    /\ UNCHANGED lib_vars
    /\ UNCHANGED <<df, patterns, config, signal_data, summary, calls, app_vars>>

\* candlestick_patterns = PatternDetection.detect_candlestick_patterns(...)
DetectCandlestickPatterns ==
    /\ pc = "candles"
    /\ \E report \in CandlestickReports :
          candlestick_patterns' = detect_candlestick_patterns(df, report)
    /\ pc' = "chart"
    /\ UNCHANGED lib_vars
    /\ UNCHANGED <<df, patterns, support_resistance, config, signal_data, summary, calls,
                   fetched, call, chart_patterns, session, telegram>>

\* chart_patterns = PatternDetection.detect_chart_patterns(...);
\* all_patterns = {**candlestick_patterns, **chart_patterns}
DetectChartPatterns ==
    /\ pc = "chart"
    /\ chart_patterns' = detect_chart_patterns(df, Settings.pattern_lookback)
    /\ patterns' = candlestick_patterns \o chart_patterns'
    /\ pc' = "signals"
    /\ UNCHANGED lib_vars
    /\ UNCHANGED <<df, support_resistance, config, signal_data, summary, calls,
                   fetched, call, candlestick_patterns, session, telegram>>

\* st.session_state.data = df_with_indicators
PublishData ==
    /\ pc = "pub_data"
    /\ session' = [session EXCEPT !.data = call]
    /\ pc' = "pub_time"
    /\ UNCHANGED lib_vars
    /\ UNCHANGED <<df, patterns, support_resistance, config, signal_data, summary, calls,
                   fetched, call, candlestick_patterns, chart_patterns, telegram>>

\* st.session_state.last_update = datetime.now()
PublishLastUpdate ==
    /\ pc = "pub_time"
    /\ session' = [session EXCEPT !.last_update = call]
    /\ pc' = "pub_levels"
    /\ UNCHANGED lib_vars
    /\ UNCHANGED <<df, patterns, support_resistance, config, signal_data, summary, calls,
                   fetched, call, candlestick_patterns, chart_patterns, telegram>>

\* st.session_state.support_resistance = support_resistance
PublishSupportResistance ==
    /\ pc = "pub_levels"
    /\ session' = [session EXCEPT !.support_resistance = call]
    /\ pc' = "pub_signals"
    /\ UNCHANGED lib_vars
    /\ UNCHANGED <<df, patterns, support_resistance, config, signal_data, summary, calls,
                   fetched, call, candlestick_patterns, chart_patterns, telegram>>

\* st.session_state.signals = signal_summary
PublishSignals ==
    /\ pc = "pub_signals"
    /\ session' = [session EXCEPT !.signals = call]
    /\ pc' = "alerts"
    /\ UNCHANGED lib_vars
    /\ UNCHANGED <<df, patterns, support_resistance, config, signal_data, summary, calls,
                   fetched, call, candlestick_patterns, chart_patterns, telegram>>

\* the locals of analyze_data are gone when it is left
LocalsGone ==
    /\ df' = NoFrame
    /\ fetched' = NoFrame
    /\ patterns' = <<>>
    /\ support_resistance' = NoLevels
    /\ signal_data' = NoSignalData
    /\ summary' = NoSummary
    /\ candlestick_patterns' = <<>>
    /\ chart_patterns' = <<>>

\* "Send alerts if configured", then return
SendAlerts ==
    /\ pc = "alerts"
    /\ IF /\ session.enable_alerts
          /\ ~ session.alert_sent
          /\ \/ Ge(summary.buy_strength, Num(Settings.alert_threshold))
             \/ Ge(summary.sell_strength, Num(Settings.alert_threshold))
          /\ ~ Empty(df)
       THEN /\ telegram' = Append(telegram, call)
            /\ session' = [session EXCEPT !.alert_sent = TRUE]
       ELSE UNCHANGED <<telegram, session>>
    /\ LocalsGone
    /\ pc' = "idle"
    /\ UNCHANGED lib_vars
    /\ UNCHANGED <<config, calls, call>>

\* the script is stopped or rerun at its next access to st.session_state:
\* analyze_data is left where it stands
Interrupt ==
    /\ pc \in {"pub_data", "pub_time", "pub_levels", "pub_signals", "alerts"}
    /\ LocalsGone
    /\ pc' = "idle"
    /\ UNCHANGED lib_vars
    /\ UNCHANGED <<config, calls, call, session, telegram>>

\* the Refresh Data button, and the auto-refresh before st.rerun()
ResetAlertFlag ==
    /\ pc = "idle"
    /\ session.alert_sent
    /\ session' = [session EXCEPT !.alert_sent = FALSE]
    /\ UNCHANGED lib_vars
    /\ UNCHANGED <<pc, df, patterns, support_resistance, config, signal_data, summary, calls,
                   fetched, call, candlestick_patterns, chart_patterns, telegram>>

InitAnalyze ==
    /\ NoLibraryCall
    /\ pc = "idle"
    /\ df = NoFrame
    /\ patterns = <<>>
    /\ support_resistance = NoLevels
    /\ config = DefaultConfig
    /\ signal_data = NoSignalData
    /\ summary = NoSummary
    /\ calls = <<>>
    /\ fetched = NoFrame
    /\ call = 0
    /\ candlestick_patterns = <<>>
    /\ chart_patterns = <<>>
    /\ \E enable_alerts \in BOOLEAN : session = InitialSession(enable_alerts)
    /\ telegram = <<>>

NextAnalyze ==
    \/ EnterAnalyzeData
    \/ AddIndicators
    \/ IdentifySupportResistance
    \/ DetectCandlestickPatterns
    \/ DetectChartPatterns
    \/ GenerateSignals
    \/ GetSignalSummary
    \/ PublishData
    \/ PublishLastUpdate
    \/ PublishSupportResistance
    \/ PublishSignals
    \/ SendAlerts
    \/ Interrupt
    \/ ResetAlertFlag

SpecAnalyze == InitAnalyze /\ [][NextAnalyze]_vars

----------------------------------------------------------------------------
(* SpecIndicators: add_indicators on frames that lack a column *)

\* the frame without some of its columns
Without(d, missing) ==
    [columns |-> d.columns \ missing,
     rows |-> [i \in 1..Len(d.rows) |-> [c \in d.columns \ missing |-> d.rows[i][c]]]]

\* the frames handed to add_indicators: the model's series, all columns there
\* or one of them absent
InitIndicators ==
    /\ NoLibraryCall
    /\ pc = "indicators"
    /\ \E n \in 1..MaxBars, move \in {-Prices.move, 0, Prices.move},
          wick \in {NoWick} \cup {[at |-> Settings.sr_window + 1, dir |-> s] : s \in {-1, 1}},
          missing \in {{}} \cup {{c} : c \in PriceColumns} :
          /\ wick.at <= n
          /\ df = Without(Series(PriceColumns, n, move, wick), missing)
          /\ fetched = Without(Series(PriceColumns, n, move, wick), missing)
    /\ patterns = <<>>
    /\ support_resistance = NoLevels
    /\ config = DefaultConfig
    /\ signal_data = NoSignalData
    /\ summary = NoSummary
    /\ calls = <<>>
    /\ call = 1
    /\ candlestick_patterns = <<>>
    /\ chart_patterns = <<>>
    /\ session = InitialSession(FALSE)
    /\ telegram = <<>>

NextIndicators == AddIndicators

SpecIndicators == InitIndicators /\ [][NextIndicators]_vars

----------------------------------------------------------------------------
(* pattern_recognition (pattern_recognition.py) *)

\* the longest frame of freely chosen candles
MaxCandles == 3

Raises(exc) == [kind |-> "raise", exc |-> exc]
Returns(frame) == [kind |-> "frame", frame |-> frame]

CandleColumns == {"Open", "High", "Low", "Close"}

ShadowColumns == {"upper_shadow", "lower_shadow", "body"}

pattern_columns ==
    {"doji", "hammer", "shooting_star", "engulfing_bullish", "engulfing_bearish",
     "morning_star", "evening_star"}

chart_columns ==
    {"double_top", "double_bottom", "head_and_shoulders", "inverse_head_and_shoulders"}

\* the value of a price cell
Price(d, i, col) == d.rows[i][col].v

body(d, i) == Abs(Price(d, i, "Close") - Price(d, i, "Open"))
upper_shadow(d, i) == Price(d, i, "High") - Max(Price(d, i, "Open"), Price(d, i, "Close"))
lower_shadow(d, i) == Min(Price(d, i, "Open"), Price(d, i, "Close")) - Price(d, i, "Low")

\* the built-in candlestick rules for row i; writes says whether the
\* assignments through .iloc[i] of a column reach the frame (they go through
\* a chained index, which writes to the frame or to a temporary copy
\* depending on the pandas build)
BuiltInCandle(d, i, writes) ==
    [doji |-> 10 * body(d, i) <= Price(d, i, "High") - Price(d, i, "Low"),
     hammer |-> /\ lower_shadow(d, i) >= 2 * body(d, i)
                /\ 2 * upper_shadow(d, i) <= body(d, i)
                /\ body(d, i) > 0,
     shooting_star |-> /\ upper_shadow(d, i) >= 2 * body(d, i)
                       /\ 2 * lower_shadow(d, i) <= body(d, i)
                       /\ body(d, i) > 0,
     engulfing_bullish |->
         IF i < 2 \/ ~ writes THEN FALSE
         ELSE /\ Price(d, i, "Close") > Price(d, i, "Open")
              /\ Price(d, i - 1, "Open") > Price(d, i - 1, "Close")
              /\ Price(d, i, "Open") <= Price(d, i - 1, "Close")
              /\ Price(d, i, "Close") >= Price(d, i - 1, "Open"),
     engulfing_bearish |->
         IF i < 2 \/ ~ writes THEN FALSE
         ELSE /\ Price(d, i, "Close") < Price(d, i, "Open")
              /\ Price(d, i - 1, "Open") < Price(d, i - 1, "Close")
              /\ Price(d, i, "Open") >= Price(d, i - 1, "Close")
              /\ Price(d, i, "Close") <= Price(d, i - 1, "Open"),
     morning_star |->
         IF i < 3 \/ ~ writes THEN FALSE
         ELSE /\ Price(d, i - 2, "Close") < Price(d, i - 2, "Open")
              /\ 10 * body(d, i - 1) < 3 * body(d, i - 2)
              /\ Price(d, i, "Close") > Price(d, i, "Open")
              /\ 2 * Price(d, i, "Close") > Price(d, i - 2, "Open") + Price(d, i - 2, "Close"),
     evening_star |->
         IF i < 3 \/ ~ writes THEN FALSE
         ELSE /\ Price(d, i - 2, "Close") > Price(d, i - 2, "Open")
              /\ 10 * body(d, i - 1) < 3 * body(d, i - 2)
              /\ Price(d, i, "Close") < Price(d, i, "Open")
              /\ 2 * Price(d, i, "Close") < Price(d, i - 2, "Open") + Price(d, i - 2, "Close")]

\* the shadow columns of row i
Shadows(d, i) ==
    [upper_shadow |-> Num(upper_shadow(d, i)), lower_shadow |-> Num(lower_shadow(d, i)),
     body |-> Num(body(d, i))]

\* pattern_recognition.detect_candlestick_patterns(df).  lib is the module's
\* global mpp; report is what the library's detector answers for a pattern
\* column (FALSE also stands for a column it does not return)
PR_detect_candlestick_patterns(d, lib, report, writes) ==
    IF ~ (CandleColumns \subseteq d.columns) THEN Raises("KeyError")
    ELSE IF ~ lib.bound THEN Raises("NameError")
    ELSE IF "detect_candlesticks" \in lib.attrs
    THEN Returns([columns |-> d.columns \cup ShadowColumns \cup pattern_columns,
                  rows |-> [i \in 1..Len(d.rows) |->
                              [c \in pattern_columns |-> report] @@ Shadows(d, i) @@ d.rows[i]]])
    ELSE Returns([columns |-> d.columns \cup ShadowColumns \cup pattern_columns,
                  rows |-> [i \in 1..Len(d.rows) |->
                              BuiltInCandle(d, i, writes) @@ Shadows(d, i) @@ d.rows[i]]])

RECURSIVE SumOver(_, _, _)
\* the sum of f[j] for j in from..to
SumOver(f, from, to) == IF from > to THEN 0 ELSE f[from] + SumOver(f, from + 1, to)

\* the trend of row i: the slope of the least-squares line through the
\* closes of the window rows before it, against 1% of their mean per window
Trend(d, i, window) ==
    LET y == [x \in 0..(window - 1) |-> Price(d, i - window + x, "Close")]
        sx == SumOver([x \in 0..(window - 1) |-> x], 0, window - 1)
        sxx == SumOver([x \in 0..(window - 1) |-> x * x], 0, window - 1)
        sy == SumOver(y, 0, window - 1)
        sxy == SumOver([x \in 0..(window - 1) |-> x * y[x]], 0, window - 1)
        num == window * sxy - sx * sy
        den == window * sxx - sx * sx
    IN  IF 100 * window * window * num > den * sy THEN "uptrend"
        ELSE IF 100 * window * window * num < -(den * sy) THEN "downtrend"
        ELSE "neutral"

\* the rows strictly inside the 2 * window rows before row i whose value in
\* col is above (dir = 1) or below (dir = -1) both of its neighbours
LocalExtrema(d, i, window, col, dir) ==
    {j \in (i - 2 * window + 1)..(i - 2) :
        /\ dir * Price(d, j, col) > dir * Price(d, j - 1, col)
        /\ dir * Price(d, j, col) > dir * Price(d, j + 1, col)}

\* two members of a list of extrema that follow one another in it
Consecutive(S, a, b) == a \in S /\ b \in S /\ a < b /\ ~ \E m \in S : a < m /\ m < b

\* "Double top: two peaks of similar height with a trough in between"
DoubleTop(d, i, window) ==
    LET local_maxima == LocalExtrema(d, i, window, "High", 1)
        local_minima == LocalExtrema(d, i, window, "Low", -1)
    IN  \E p1 \in local_maxima, p2 \in local_maxima :
            /\ Consecutive(local_maxima, p1, p2)
            /\ 100 * Abs(Price(d, p1, "High") - Price(d, p2, "High")) < Price(d, p1, "High")
            /\ p2 - p1 > window \div 4
            /\ \E t \in local_minima :
                   /\ p1 < t /\ t < p2
                   /\ 100 * Price(d, t, "Low")
                          < 98 * Min(Price(d, p1, "High"), Price(d, p2, "High"))

\* "Double bottom: two troughs of similar depth with a peak in between"
DoubleBottom(d, i, window) ==
    LET local_maxima == LocalExtrema(d, i, window, "High", 1)
        local_minima == LocalExtrema(d, i, window, "Low", -1)
    IN  \E t1 \in local_minima, t2 \in local_minima :
            /\ Consecutive(local_minima, t1, t2)
            /\ 100 * Abs(Price(d, t1, "Low") - Price(d, t2, "Low")) < Price(d, t1, "Low")
            /\ t2 - t1 > window \div 4
            /\ \E p \in local_maxima :
                   /\ t1 < p /\ p < t2
                   /\ 100 * Price(d, p, "High")
                          > 102 * Max(Price(d, t1, "Low"), Price(d, t2, "Low"))

\* the built-in chart rules for row i
BuiltInChart(d, i, window) ==
    [double_top |-> i > 2 * window /\ {"High", "Low"} \subseteq d.columns
                        /\ DoubleTop(d, i, window),
     double_bottom |-> i > 2 * window /\ {"High", "Low"} \subseteq d.columns
                           /\ DoubleBottom(d, i, window),
     head_and_shoulders |-> FALSE,
     inverse_head_and_shoulders |-> FALSE,
     trend |-> IF i > window THEN Trend(d, i, window) ELSE "neutral"]

\* pattern_recognition.detect_chart_patterns(df, window).  report is what the
\* library's detector answers for a pattern column (its trend column, if it
\* returns one, is taken as the initial 'neutral')
PR_detect_chart_patterns(d, window, lib, report) ==
    IF ~ lib.bound THEN Raises("NameError")
    ELSE IF "detect_patterns" \in lib.attrs
    THEN Returns([columns |-> d.columns \cup chart_columns \cup {"trend"},
                  rows |-> [i \in 1..Len(d.rows) |->
                              [c \in chart_columns |-> report] @@ [trend |-> "neutral"]
                                  @@ d.rows[i]]])
    ELSE IF Len(d.rows) > window /\ "Close" \notin d.columns THEN Raises("KeyError")
    ELSE Returns([columns |-> d.columns \cup chart_columns \cup {"trend"},
                  rows |-> [i \in 1..Len(d.rows) |-> BuiltInChart(d, i, window) @@ d.rows[i]]])

----------------------------------------------------------------------------
(* SpecRecognise: the two detectors of pattern_recognition, with and without
   the optional library *)

\* the window detect_chart_patterns is called with
ChartWindow == 4

Candle(o, h, l, c) == [Open |-> Num(o), High |-> Num(h), Low |-> Num(l), Close |-> Num(c)]

\* a rising and a falling candle, a doji, a hammer and a candle reaching higher
Shapes ==
    {Candle(100, 110, 100, 110), Candle(110, 110, 100, 100), Candle(105, 106, 104, 105),
     Candle(108, 109, 100, 109), Candle(106, 112, 105, 106)}

\* the modules the import can leave bound to mpp
Modules ==
    {NoModule} \cup
    {[bound |-> TRUE, attrs |-> A] : A \in SUBSET {"detect_candlesticks", "detect_patterns"}}

\* short frames of any candles, and longer ones in which two candles alternate
InitRecognise ==
    /\ pc = "recognise"
    /\ mpp \in Modules
    /\ \/ \E n \in 0..MaxCandles : \E rows \in [1..n -> Shapes] :
              df = [columns |-> CandleColumns, rows |-> rows]
       \/ \E n \in (MaxCandles + 1)..MaxBars, a \in Shapes, b \in Shapes :
              df = [columns |-> CandleColumns,
                    rows |-> [i \in 1..n |-> IF i % 2 = 1 THEN a ELSE b]]
    /\ args = [window |-> ChartWindow]
    /\ result = NoResult
    /\ NoRun
    /\ patterns = <<>>
    /\ support_resistance = NoLevels
    /\ config = DefaultConfig
    /\ signal_data = NoSignalData
    /\ summary = NoSummary
    /\ calls = <<>>
    /\ NotInAnalyzeData

\* data_with_patterns = detect_candlestick_patterns(data)
DetectCandlesticks ==
    /\ pc = "recognise"
    /\ \E report \in BOOLEAN, writes \in BOOLEAN :
           result' = PR_detect_candlestick_patterns(df, mpp, report, writes)
    /\ pc' = "candlesticks"
    /\ UNCHANGED <<df, patterns, support_resistance, config, signal_data, summary, calls,
                   app_vars, mpp, args, run_vars>>

\* detect_chart_patterns(data, window)
DetectPatterns ==
    /\ pc = "recognise"
    /\ \E report \in BOOLEAN :
           result' = PR_detect_chart_patterns(df, args.window, mpp, report)
    /\ pc' = "charts"
    /\ UNCHANGED <<df, patterns, support_resistance, config, signal_data, summary, calls,
                   app_vars, mpp, args, run_vars>>

NextRecognise == DetectCandlesticks \/ DetectPatterns

SpecRecognise == InitRecognise /\ [][NextRecognise]_vars

----------------------------------------------------------------------------
(* indicators (indicators.py) *)

\* row i is at or beyond (>= for dir = 1, <= for dir = -1) every one of the
\* window rows before it and after it
IsLocal(xs, i, window, dir) ==
    \A j \in 1..window :
        /\ IsNum(xs[i]) /\ IsNum(xs[i - j]) /\ IsNum(xs[i + j])
        /\ dir * xs[i].v >= dir * xs[i - j].v
        /\ dir * xs[i].v >= dir * xs[i + j].v

\* for i in range(window, len(df_copy) - window), counted from row 1: the
\* values appended
LocalValues(xs, window, dir) ==
    {xs[i].v : i \in {k \in (window + 1)..(Len(xs) - window) : IsLocal(xs, k, window, dir)}}

\* sorted(list(set(...)))
RECURSIVE SortedSet(_)
SortedSet(S) ==
    IF S = {} THEN <<>>
    ELSE LET least == CHOOSE x \in S : \A y \in S : x <= y
         IN  <<least>> \o SortedSet(S \ {least})

\* indicators.calculate_support_resistance(df, window); prices are whole
\* numbers, which round(level, 2) leaves as they are
calculate_support_resistance(d, window) ==
    IF Len(d.rows) <= 2 * window
    THEN [kind |-> "levels", support |-> <<>>, resistance |-> <<>>]
    ELSE IF ~ ({"Low", "High"} \subseteq d.columns) THEN Raises("KeyError")
    ELSE [kind |-> "levels",
          support |-> SortedSet(LocalValues(Column(d, "Low"), window, -1)),
          resistance |-> SortedSet(LocalValues(Column(d, "High"), window, 1))]

----------------------------------------------------------------------------
(* SpecSwings: the two swing-point level detectors *)

\* the widest window and the longest series the detectors are given
MaxWindow == 2
MaxSwingBars == 5

\* the low and the high of a bar, under the column names of the one module
\* or of the other
SwingBar(low, high, capitals) ==
    IF capitals THEN [Low |-> Num(low), High |-> Num(high)]
    ELSE [low |-> Num(low), high |-> Num(high)]

\* bars that tie in their low, in their high, or in neither
SwingBars(capitals) ==
    {SwingBar(100, 110, capitals), SwingBar(99, 110, capitals), SwingBar(100, 111, capitals)}

InitSwings ==
    /\ pc = "swings"
    /\ \E w \in 1..MaxWindow : args = [window |-> w]
    /\ \E n \in 0..MaxSwingBars, capitals \in BOOLEAN : \E rows \in [1..n -> SwingBars(capitals)] :
          df = [columns |-> IF capitals THEN {"Low", "High"} ELSE {"low", "high"},
                rows |-> rows]
    /\ mpp = NoModule
    /\ result = NoResult
    /\ NoRun
    /\ patterns = <<>>
    /\ support_resistance = NoLevels
    /\ config = DefaultConfig
    /\ signal_data = NoSignalData
    /\ summary = NoSummary
    /\ calls = <<>>
    /\ NotInAnalyzeData

\* TechnicalIndicators.identify_support_resistance(df, window, threshold)
IdentifyLevels ==
    /\ pc = "swings"
    /\ support_resistance' = identify_support_resistance(df, args.window, Settings.sr_threshold)
    /\ pc' = "identified"
    /\ UNCHANGED <<df, patterns, config, signal_data, summary, calls, app_vars, lib_vars>>

\* indicators.calculate_support_resistance(df, window)
CalculateSupportResistance ==
    /\ pc = "swings"
    /\ result' = calculate_support_resistance(df, args.window)
    /\ pc' = "calculated"
    /\ UNCHANGED <<df, patterns, support_resistance, config, signal_data, summary, calls,
                   app_vars, mpp, args, run_vars>>

NextSwings == IdentifyLevels \/ CalculateSupportResistance

SpecSwings == InitSwings /\ [][NextSwings]_vars

----------------------------------------------------------------------------
(* SpecCluster: cluster_levels on lists of swing values *)

\* the longest list of swing values
MaxInputs == 4

\* swing values 1%, 2%, 3%, 5% and 10% apart
SwingValues == {100, 101, 102, 103, 105, 110}

\* thresholds, in percent
Thresholds == {0, 1, 2, 5}

InitCluster ==
    /\ pc = "cluster"
    /\ \E n \in 0..MaxInputs, t \in Thresholds : \E levels \in [1..n -> SwingValues] :
          args = [levels |-> levels, threshold_pct |-> t]
    /\ mpp = NoModule
    /\ result = NoResult
    /\ NoRun
    /\ df = NoFrame
    /\ patterns = <<>>
    /\ support_resistance = NoLevels
    /\ config = DefaultConfig
    /\ signal_data = NoSignalData
    /\ summary = NoSummary
    /\ calls = <<>>
    /\ NotInAnalyzeData

\* clustered = cluster_levels(levels, threshold)
ClusterLevels ==
    /\ pc = "cluster"
    /\ result' = [kind |-> "list", value |-> cluster_levels(args.levels, args.threshold_pct)]
    /\ pc' = "clustered"
    /\ UNCHANGED <<df, patterns, support_resistance, config, signal_data, summary, calls,
                   app_vars, mpp, args, run_vars>>

\* a number every denominator of the fractions divides
RECURSIVE CommonDen(_)
CommonDen(fs) == IF Len(fs) = 0 THEN 1 ELSE Head(fs).den * CommonDen(Tail(fs))

\* cluster_levels on a list of averages: the fractions are brought to a
\* common denominator, whose numerators are clustered (the test is one of
\* relative distance, which the scale does not change)
cluster_averages(fs, threshold_pct) ==
    LET scale == CommonDen(fs)
        c == cluster_levels([i \in 1..Len(fs) |-> fs[i].num * (scale \div fs[i].den)],
                            threshold_pct)
    IN  [i \in 1..Len(c) |-> [num |-> c[i].num, den |-> c[i].den * scale]]

\* cluster_levels(clustered, threshold): the function applied to its own output
ClusterAgain ==
    /\ pc = "clustered"
    /\ args' = [args EXCEPT !.levels = result.value]
    /\ result' = [kind |-> "list", value |-> cluster_averages(result.value, args.threshold_pct)]
    /\ pc' = "reclustered"
    /\ UNCHANGED <<df, patterns, support_resistance, config, signal_data, summary, calls,
                   app_vars, mpp, run_vars>>

NextCluster == ClusterLevels \/ ClusterAgain

SpecCluster == InitCluster /\ [][NextCluster]_vars

----------------------------------------------------------------------------
(* SpecChart: the pattern detectors on series with peaks and troughs *)

\* the model's series for the chart detectors: rows bars at base, but for
\* every third bar from the second on, which may be a peak (bars 2, 8, 14),
\* or a trough (bars 5, 11)
Spikes == [rows |-> 16, base |-> 149, first |-> 2, every |-> 3, window |-> 5, short |-> 10]

\* no peak; peaks less than 2% apart; a peak far higher
PeakValues == {Spikes.base, 150, 151, 160}

\* no trough; a trough exactly 2% below a peak of 150; deeper ones
TroughValues == {Spikes.base, 147, 146, 130}

\* the price of bar i: peaks[k] at the k-th peak bar, troughs[k] at the k-th
\* trough bar
SpikePrice(i, peaks, troughs) ==
    IF i < Spikes.first \/ (i - Spikes.first) % Spikes.every # 0 THEN Spikes.base
    ELSE LET k == (i - Spikes.first) \div Spikes.every
         IN  IF k % 2 = 0
             THEN (IF k \div 2 + 1 <= Len(peaks) THEN peaks[k \div 2 + 1] ELSE Spikes.base)
             ELSE (IF (k + 1) \div 2 <= Len(troughs) THEN troughs[(k + 1) \div 2] ELSE Spikes.base)

\* a bar that opens, closes and has its high and low at one price, under
\* the column names of pattern_detection or of pattern_recognition
FlatBar(price, capitals) ==
    IF capitals THEN Candle(price, price, price, price)
    ELSE [open |-> Num(price), high |-> Num(price), low |-> Num(price), close |-> Num(price)]

\* mirror is 1, or -1 for the series turned upside down about the base
SpikeSeries(peaks, troughs, mirror, capitals) ==
    [columns |-> IF capitals THEN CandleColumns ELSE {"open", "high", "low", "close"},
     rows |-> [i \in 1..Spikes.rows |->
                 FlatBar(Spikes.base + mirror * (SpikePrice(i, peaks, troughs) - Spikes.base),
                         capitals)]]

\* the library functions of detect_candlestick_patterns that the model lets
\* answer, with the names the code gives them, in the order of the dict
CandleNames == <<"Doji", "Hammer">>

\* a variant that returns the dict of results as it is, the entries of 0 too
RECURSIVE Detected_Unfiltered(_, _)
Detected_Unfiltered(signal, i) ==
    IF i > Len(CandleNames) THEN <<>>
    ELSE <<Pattern(CandleNames[i], signal[i])>> \o Detected_Unfiltered(signal, i + 1)

\* lines 46-66 of detect_candlestick_patterns: results[name] = 0 for every
\* name, results[name] = signal where the signal is not 0, then the entries
\* that are not 0
RECURSIVE Detected(_, _)
Detected(signal, i) ==
    IF i > Len(CandleNames) THEN <<>>
    ELSE (IF signal[i] # 0 THEN <<Pattern(CandleNames[i], signal[i])>> ELSE <<>>)
             \o Detected(signal, i + 1)

\* a module bound to mpp that has neither detector
BareModule == [bound |-> TRUE, attrs |-> {}]

InitChart ==
    /\ pc = "detect"
    /\ \E peaks \in [1..3 -> PeakValues], troughs \in [1..2 -> TroughValues],
          mirror \in {1, -1}, capitals \in BOOLEAN :
          /\ df = SpikeSeries(peaks, troughs, mirror, capitals)
          /\ IF capitals
             THEN mpp \in {NoModule, BareModule}
                  /\ args = [lookback |-> Spikes.rows, window |-> Spikes.window]
             ELSE mpp = NoModule
                  /\ \E l \in {Spikes.short, Spikes.rows} :
                        args = [lookback |-> l, window |-> Spikes.window]
    /\ result = NoResult
    /\ NoRun
    /\ patterns = <<>>
    /\ support_resistance = NoLevels
    /\ config = DefaultConfig
    /\ signal_data = NoSignalData
    /\ summary = NoSummary
    /\ calls = <<>>
    /\ NotInAnalyzeData

\* PatternDetection.detect_candlestick_patterns(df)
CallDetectCandlestickPatterns ==
    /\ pc = "detect"
    /\ \E signal \in [1..Len(CandleNames) -> {-100, 0, 100}] :
          candlestick_patterns' = detect_candlestick_patterns(df, Detected(signal, 1))
    /\ pc' = "detected_candles"
    /\ UNCHANGED <<df, patterns, support_resistance, config, signal_data, summary, calls,
                   fetched, call, chart_patterns, session, telegram, lib_vars>>

\* PatternDetection.detect_chart_patterns(df, lookback)
CallDetectChartPatterns ==
    /\ pc = "detect"
    /\ chart_patterns' = detect_chart_patterns(df, args.lookback)
    /\ pc' = "detected_chart"
    /\ UNCHANGED <<df, patterns, support_resistance, config, signal_data, summary, calls,
                   fetched, call, candlestick_patterns, session, telegram, lib_vars>>

\* pattern_recognition.detect_chart_patterns(df, window)
CallRecogniseChartPatterns ==
    /\ pc = "detect"
    /\ \E report \in BOOLEAN :
           result' = PR_detect_chart_patterns(df, args.window, mpp, report)
    /\ pc' = "recognised_chart"
    /\ UNCHANGED <<df, patterns, support_resistance, config, signal_data, summary, calls,
                   app_vars, mpp, args, run_vars>>

NextChart ==
    CallDetectCandlestickPatterns \/ CallDetectChartPatterns \/ CallRecogniseChartPatterns

SpecChart == InitChart /\ [][NextChart]_vars

----------------------------------------------------------------------------
(* SpecAlerts: the runs of app.py's script one after the other: the sidebar,
   update_data with the alert at the end of analyze_data, and what makes the
   script run again *)

\* the number of script runs followed
MaxCycles == 3

\* the strengths, in halves, an analysis may come to: 1.5 and 2
RunStrengths == {3, 4}

\* a run that has just begun: how it was started, and nothing analysed yet
NewCycle(trigger) ==
    [trigger |-> trigger, analysed |-> FALSE, recommendation |-> "unset",
     buy_strength |-> Missing, sell_strength |-> Missing, sends |-> 0, delivered |-> FALSE]

LastCycle == cycles[Len(cycles)]

\* "if (signal_summary['buy_strength'] >= threshold or
\*      signal_summary['sell_strength'] >= threshold)"
AtThreshold(s) ==
    \/ Ge(s.buy_strength, Num(Settings.alert_threshold))
    \/ Ge(s.sell_strength, Num(Settings.alert_threshold))

\* the script runs for the first time in the session: the sidebar, with the
\* box "Enable Telegram Alerts" as the user has it
FirstRun ==
    /\ pc = "idle"
    /\ cycles = <<>>
    /\ cycles' = <<NewCycle("first")>>
    /\ pc' = "update"
    /\ UNCHANGED <<df, patterns, support_resistance, config, signal_data, summary, calls,
                   app_vars, mpp, args, result, current_start, all_data, requests,
                   attempt, fetches>>

\* the run of the script that follows a run, with its sidebar
Rerun(trigger, enable_alerts, alert_sent) ==
    /\ Len(cycles) < MaxCycles
    /\ cycles' = Append(cycles, NewCycle(trigger))
    /\ session' = [session EXCEPT !.enable_alerts = enable_alerts, !.alert_sent = alert_sent]
    /\ summary' = NoSummary
    /\ pc' = "update"
    /\ UNCHANGED <<df, patterns, support_resistance, config, signal_data, calls,
                   fetched, call, candlestick_patterns, chart_patterns, telegram,
                   mpp, args, result, current_start, all_data, requests, attempt, fetches>>

\* "Auto-refresh functionality": time.sleep(refresh_interval), the flag is
\* reset, st.rerun()
AutoRefresh ==
    /\ pc = "shown"
    /\ Rerun("auto", session.enable_alerts, FALSE)

\* the user clicks "Refresh Data" while the script sleeps: the script runs
\* again and st.button answers True
ClickRefreshData ==
    /\ pc = "shown"
    /\ Rerun("button", session.enable_alerts, FALSE)

\* the user changes another widget while the script sleeps (here the box
\* "Enable Telegram Alerts", or one that does not matter to the alert): the
\* script runs again
ChangeWidget ==
    /\ pc = "shown"
    /\ \E enable_alerts \in BOOLEAN : Rerun("widget", enable_alerts, session.alert_sent)

\* the user changes a widget while send_signal_alert is under way: the script
\* is run again from its next access to st.session_state, which is the
\* assignment of the flag
ChangeWidgetWhileSending ==
    /\ pc = "sent"
    /\ Rerun("widget", session.enable_alerts, session.alert_sent)

\* update_data: the data is fetched; "if not df.empty" analyze_data computes
\* the summary and publishes it, else st.error
UpdateData ==
    /\ pc = "update"
    /\ \/ /\ \E buy \in RunStrengths, sell \in RunStrengths :
                summary' = get_signal_summary([kind |-> "dict", buy |-> Num(buy),
                                               sell |-> Num(sell), signals |-> <<>>])
          /\ call' = call + 1
          /\ session' = [session EXCEPT !.data = call', !.last_update = call',
                                        !.support_resistance = call', !.signals = call']
          /\ cycles' = [cycles EXCEPT ![Len(cycles)] =
                           [@ EXCEPT !.analysed = TRUE,
                                     !.recommendation = summary'.recommendation,
                                     !.buy_strength = summary'.buy_strength,
                                     !.sell_strength = summary'.sell_strength]]
          /\ pc' = "alerts"
       \/ /\ pc' = "shown"
          /\ UNCHANGED <<summary, call, session, cycles>>
    /\ UNCHANGED <<df, patterns, support_resistance, config, signal_data, calls,
                   fetched, candlestick_patterns, chart_patterns, telegram,
                   mpp, args, result, current_start, all_data, requests, attempt, fetches>>

\* "Send alerts if configured": telegram_bot.send_signal_alert(...), which
\* answers whether the message was delivered
SendSignalAlert ==
    /\ pc = "alerts"
    /\ session.enable_alerts /\ ~ session.alert_sent
    /\ AtThreshold(summary)
    /\ telegram' = Append(telegram, call)
    /\ \E delivered \in BOOLEAN :
          cycles' = [cycles EXCEPT ![Len(cycles)] =
                        [@ EXCEPT !.sends = @ + 1, !.delivered = delivered]]
    /\ pc' = "sent"
    /\ UNCHANGED <<df, patterns, support_resistance, config, signal_data, summary, calls,
                   fetched, call, candlestick_patterns, chart_patterns, session,
                   mpp, args, result, current_start, all_data, requests, attempt, fetches>>

\* "Set alert sent flag to avoid repeated alerts"
SetAlertSent ==
    /\ pc = "sent"
    /\ session' = [session EXCEPT !.alert_sent = TRUE]
    /\ pc' = "shown"
    /\ UNCHANGED <<df, patterns, support_resistance, config, signal_data, summary, calls,
                   fetched, call, candlestick_patterns, chart_patterns, telegram,
                   mpp, args, result, run_vars>>

\* nothing to send: alerts are off, the flag is set, or no strength is at
\* the threshold
NoAlert ==
    /\ pc = "alerts"
    /\ ~ (session.enable_alerts /\ ~ session.alert_sent /\ AtThreshold(summary))
    /\ pc' = "shown"
    /\ UNCHANGED <<df, patterns, support_resistance, config, signal_data, summary, calls,
                   app_vars, mpp, args, result, run_vars>>

InitAlerts ==
    /\ pc = "idle"
    /\ df = NoFrame
    /\ patterns = <<>>
    /\ support_resistance = NoLevels
    /\ config = DefaultConfig
    /\ signal_data = NoSignalData
    /\ summary = NoSummary
    /\ calls = <<>>
    /\ fetched = NoFrame
    /\ call = 0
    /\ candlestick_patterns = <<>>
    /\ chart_patterns = <<>>
    /\ \E enable_alerts \in BOOLEAN : session = InitialSession(enable_alerts)
    /\ telegram = <<>>
    /\ NoLibraryCall

NextAlerts ==
    \/ FirstRun
    \/ AutoRefresh
    \/ ClickRefreshData
    \/ ChangeWidget
    \/ ChangeWidgetWhileSending
    \/ UpdateData
    \/ SendSignalAlert
    \/ SetAlertSent
    \/ NoAlert

SpecAlerts == InitAlerts /\ [][NextAlerts]_vars

----------------------------------------------------------------------------
(* SpecFetch: get_historical_data of data_fetcher.py, chunk by chunk.  A date
   is the number of its day; strptime gives the midnight of the day and
   strftime the day, so a date passes both unchanged. *)

\* the longest stretch of days asked for
MaxSpan == 32

\* the day the stretches asked for begin at
FirstDay == 100

\* "For minute data, limit to 5 days per request", else 30; an interval that
\* is not valid is taken as 'hourly'
max_days_per_request(interval) == IF interval = "minute" THEN 5 ELSE 30

\* a quote of the API's answer for a day
Quote(day) ==
    [date |-> day, open |-> Num(1900), high |-> Num(1900 + day), low |-> Num(1900 - day),
     close |-> Num(1900)]

\* chunk_df after "Format the dataframe": 'date' becomes the index 'timestamp'
FormatQuote(q) ==
    [timestamp |-> q.date, open |-> q.open, high |-> q.high, low |-> q.low, close |-> q.close]

\* what requests.get and the answer's json can come to for a chunk: a
\* RequestException, an answer without 'quotes', one with no quote, and the
\* quotes of the two ends of the chunk in either order
Answers(from, to) ==
    {[outcome |-> "error", quotes |-> <<>>],
     [outcome |-> "no_quotes", quotes |-> <<>>],
     [outcome |-> "ok", quotes |-> <<>>],
     [outcome |-> "ok", quotes |-> <<Quote(from), Quote(to)>>],
     [outcome |-> "ok", quotes |-> <<Quote(to), Quote(from)>>]}

\* a variant that returns the rows in the order they were collected
sort_index_AsCollected(rows) == rows

\* all_data.sort_index(): every row goes to the place that the number of rows
\* with an earlier timestamp gives it, rows of one timestamp in their order
sort_index(rows) ==
    LET place(i) ==
            Cardinality({j \in 1..Len(rows) :
                            \/ rows[j].timestamp < rows[i].timestamp
                            \/ rows[j].timestamp = rows[i].timestamp /\ j < i}) + 1
    IN  [k \in 1..Len(rows) |-> rows[CHOOSE i \in 1..Len(rows) : place(i) = k]]

\* get_historical_data(start_date, end_date, interval) is called, up to the
\* loop: the interval is validated, the dates are parsed
InitFetch ==
    /\ pc = "chunks"
    /\ \E span \in (-1)..MaxSpan, interval \in {"minute", "hourly", "weekly"} :
          args = [start_dt |-> FirstDay, end_dt |-> FirstDay + span,
                  interval |-> IF interval \in {"daily", "hourly", "minute"}
                               THEN interval ELSE "hourly"]
    /\ current_start = FirstDay
    /\ all_data = <<>>
    /\ requests = <<>>
    /\ cycles = <<>>
    /\ attempt = 0
    /\ fetches = <<>>
    /\ mpp = NoModule
    /\ result = NoResult
    /\ df = NoFrame
    /\ patterns = <<>>
    /\ support_resistance = NoLevels
    /\ config = DefaultConfig
    /\ signal_data = NoSignalData
    /\ summary = NoSummary
    /\ calls = <<>>
    /\ NotInAnalyzeData

\* one pass of "while current_start < end_dt": the request for the chunk,
\* its rows appended to all_data unless it failed, "Move to next chunk"
RequestChunk ==
    /\ pc = "chunks"
    /\ current_start < args.end_dt
    /\ LET current_end == Min(current_start + max_days_per_request(args.interval), args.end_dt)
       IN  /\ \E answer \in Answers(current_start, current_end) :
                 /\ requests' = Append(requests,
                                       [start_date |-> current_start, end_date |-> current_end,
                                        outcome |-> answer.outcome, quotes |-> answer.quotes])
                 /\ all_data' =
                        IF answer.outcome = "ok"
                        THEN all_data \o [i \in 1..Len(answer.quotes) |-> FormatQuote(answer.quotes[i])]
                        ELSE all_data
           /\ current_start' = current_end + 1
    /\ UNCHANGED <<pc, df, patterns, support_resistance, config, signal_data, summary, calls,
                   app_vars, mpp, args, result, cycles, attempt, fetches>>

\* the loop is left: "Sort the final dataframe by timestamp", return all_data
ReturnAllData ==
    /\ pc = "chunks"
    /\ ~ (current_start < args.end_dt)
    /\ result' = Returns([columns |-> IF Len(all_data) = 0 THEN {}
                                      ELSE {"open", "high", "low", "close"},
                          rows |-> IF Len(all_data) = 0 THEN <<>> ELSE sort_index(all_data)])
    /\ pc' = "returned"
    /\ UNCHANGED <<df, patterns, support_resistance, config, signal_data, summary, calls,
                   app_vars, mpp, args, run_vars>>

NextFetch == RequestChunk \/ ReturnAllData

SpecFetch == InitFetch /\ [][NextFetch]_vars

\* the loop runs on: a pass that can be made is made
SpecFetchLive == SpecFetch /\ WF_vars(NextFetch)

----------------------------------------------------------------------------
(* SpecRetry: main of working_latest.py: the data is fetched, by up to three
   attempts on a weekday, replaced by fallback data where there is none, and
   handed to calculate_indicators and generate_signals *)

\* "for attempt in range(3)"
Attempts == 3

\* "if len(df) < 20: return df"
MinRows == 20

\* get_fallback_data: range(30)
FallbackRows == 30

YahooColumns == {"Datetime", "Open", "High", "Low", "Close", "Volume"}

\* a frame of n rows an hour apart whose closes are all close
HourlyFrame(n, price, close) ==
    [columns |-> YahooColumns,
     rows |-> [i \in 1..n |-> [Datetime |-> Num(i), Open |-> Num(price), High |-> Num(price),
                               Low |-> Num(price), Close |-> close, Volume |-> Num(10000)]]]

\* what yf.download can come to: an exception, no data, data whose index is
\* not named 'Datetime' (daily bars), and hourly bars with or without closes
Downloads ==
    {[kind |-> "raise", data |-> NoFrame], [kind |-> "data", data |-> NoFrame]} \cup
    {[kind |-> k, data |-> HourlyFrame(n, 1900, close)] :
         k \in {"data", "daily"}, n \in {1, MinRows - 1, MinRows}, close \in {Num(1900), NaN}}

\* fetch_gold_data: an empty frame for no data and for whatever is raised
\* (data['Datetime'] of daily bars raises KeyError), else the six columns
fetch_gold_data(download) ==
    IF download.kind = "raise" THEN NoFrame
    ELSE IF Empty(download.data) THEN NoFrame
    ELSE IF download.kind = "daily" THEN NoFrame
    ELSE download.data

\* get_fallback_data: 30 hourly rows of prices between 2300 and 2350
get_fallback_data(price) == HourlyFrame(FallbackRows, price, Num(price))

FallbackData == {get_fallback_data(price) : price \in {2300, 2350}}

\* a variant that looks at the closes only
NoValidData_ClosesOnly(d) ==
    Len(d.rows) > 0 /\ \A i \in 1..Len(d.rows) : d.rows[i]["Close"].t # "num"

\* "if df.empty or df['Close'].isnull().all()"
NoValidData(d) ==
    IF Empty(d) THEN TRUE ELSE \A i \in 1..Len(d.rows) : d.rows[i]["Close"].t # "num"

\* a frame with one more column, of one value
WithColumn(d, col, value) ==
    [columns |-> d.columns \cup {col},
     rows |-> [i \in 1..Len(d.rows) |-> (col :> value) @@ d.rows[i]]]

\* calculate_indicators: the frame as it is when shorter than 20 rows, else
\* with the columns of pandas-ta and of calculate_pivot_points; sma, ema, rsi
\* and pivot are what the libraries answer
WL_calculate_indicators(d, sma, ema, rsi, pivot) ==
    IF Len(d.rows) < MinRows THEN d
    ELSE WithColumn(WithColumn(WithColumn(WithColumn(d, "SMA_20", sma), "EMA_50", ema),
                               "RSI_14", rsi), "Pivot", pivot)

\* generate_signals of working_latest: 'HOLD', 'BUY' below an RSI of 30 and
\* 'SELL' above 70; MA_Signal 1 where SMA_20 > EMA_50, else -1, NaN without
\* the two columns
WL_generate_signals(d) ==
    [columns |-> d.columns \cup {"Signal", "MA_Signal"},
     rows |-> [i \in 1..Len(d.rows) |->
                  [Signal |-> IF "RSI_14" \notin d.columns THEN "HOLD"
                              ELSE IF Gt(d.rows[i]["RSI_14"], Num(70)) THEN "SELL"
                              ELSE IF Lt(d.rows[i]["RSI_14"], Num(30)) THEN "BUY"
                              ELSE "HOLD",
                   MA_Signal |-> IF {"SMA_20", "EMA_50"} \subseteq d.columns
                                 THEN IF Gt(d.rows[i]["SMA_20"], d.rows[i]["EMA_50"])
                                      THEN Num(1) ELSE Num(-1)
                                 ELSE NaN]
                  @@ d.rows[i]]]

\* main is entered: "Skip weekends", or the loop begins with an empty frame
InitRetry ==
    /\ pc = "main"
    /\ args \in {[weekday |-> w] : w \in BOOLEAN}
    /\ df = NoFrame
    /\ attempt = 0
    /\ fetches = <<>>
    /\ cycles = <<>>
    /\ current_start = 0
    /\ all_data = <<>>
    /\ requests = <<>>
    /\ mpp = NoModule
    /\ result = NoResult
    /\ patterns = <<>>
    /\ support_resistance = NoLevels
    /\ config = DefaultConfig
    /\ signal_data = NoSignalData
    /\ summary = NoSummary
    /\ calls = <<>>
    /\ NotInAnalyzeData

\* "if datetime.today().weekday() >= 5": fallback data at the weekend
SkipWeekend ==
    /\ pc = "main"
    /\ ~ args.weekday
    /\ df' \in FallbackData
    /\ pc' = "check"
    /\ UNCHANGED <<patterns, support_resistance, config, signal_data, summary, calls,
                   app_vars, mpp, args, result, run_vars>>

\* one pass of "for attempt in range(3)": fetch_gold_data; break on data,
\* else time.sleep(5) and the next attempt
FetchGoldData ==
    /\ pc \in {"main", "fetch"}
    /\ args.weekday
    /\ \E download \in Downloads :
          /\ df' = fetch_gold_data(download)
          /\ fetches' = Append(fetches, df')
          /\ IF ~ Empty(df') THEN pc' = "check" /\ attempt' = attempt
             ELSE IF attempt + 1 < Attempts THEN pc' = "fetch" /\ attempt' = attempt + 1
             ELSE pc' = "check" /\ attempt' = attempt
    /\ UNCHANGED <<patterns, support_resistance, config, signal_data, summary, calls,
                   app_vars, mpp, args, result, cycles, current_start, all_data, requests>>

\* "Using fallback data (no valid market data found)"
UseFallbackData ==
    /\ pc = "check"
    /\ IF NoValidData(df) THEN df' \in FallbackData ELSE df' = df
    /\ pc' = "indicators"
    /\ UNCHANGED <<patterns, support_resistance, config, signal_data, summary, calls,
                   app_vars, mpp, args, result, run_vars>>

\* df = calculate_indicators(df)
CalculateIndicators ==
    /\ pc = "indicators"
    /\ \E sma \in {Num(2310)}, ema \in {Num(2300), Num(2320)}, rsi \in {NaN, Num(25), Num(50), Num(75)},
          pivot \in {Num(2305), NaN} :
          df' = WL_calculate_indicators(df, sma, ema, rsi, pivot)
    /\ pc' = "signals"
    /\ UNCHANGED <<patterns, support_resistance, config, signal_data, summary, calls,
                   app_vars, mpp, args, result, run_vars>>

\* df = generate_signals(df)
GenerateTradingSignals ==
    /\ pc = "signals"
    /\ df' = WL_generate_signals(df)
    /\ pc' = "chart"
    /\ UNCHANGED <<patterns, support_resistance, config, signal_data, summary, calls,
                   app_vars, mpp, args, result, run_vars>>

NextRetry ==
    \/ SkipWeekend
    \/ FetchGoldData
    \/ UseFallbackData
    \/ CalculateIndicators
    \/ GenerateTradingSignals

SpecRetry == InitRetry /\ [][NextRetry]_vars

----------------------------------------------------------------------------
(* SpecRecent: identify_support_resistance of technical_analysis.py on
   series with up to six swing lows and six swing highs *)

\* the series: 20 bars with a low of 100 and a high of 110, but for the bars
\* 3, 6, ..., 18, which may reach further down and up
Swinging == [rows |-> 20, low |-> 100, high |-> 110, first |-> 3, every |-> 3, places |-> 6]

\* how far a bar may reach beyond the others: not at all, or by 1, 2 or 3
Reaches == 0..3

\* "Keep only the most recent levels (last 5)"
KeptLevels == 5

SwingingBar(i, reach) ==
    LET k == (i - Swinging.first) \div Swinging.every + 1
        r == IF i >= Swinging.first /\ (i - Swinging.first) % Swinging.every = 0
                  /\ k <= Swinging.places
             THEN reach[k] ELSE 0
    IN  [Low |-> Num(Swinging.low - r), High |-> Num(Swinging.high + r)]

\* (df[col].iloc[i] < df[col].iloc[i-1]).item() and ... i-2, i+1, i+2, or >
IsTurn(xs, i, dir) ==
    \A j \in {-2, -1, 1, 2} :
        IF dir = 1 THEN Gt(xs[i], xs[i + j]) ELSE Lt(xs[i], xs[i + j])

\* for i in range(2, len(df) - 2), counted from row 1: the values appended
RECURSIVE TurnValues(_, _, _)
TurnValues(xs, i, dir) ==
    IF i > Len(xs) - 2 THEN <<>>
    ELSE IF IsTurn(xs, i, dir) THEN <<xs[i].v>> \o TurnValues(xs, i + 1, dir)
    ELSE TurnValues(xs, i + 1, dir)

\* sorted(levels): every value at the place that the number of smaller
\* values, and of equal values before it, gives it
SortedValues(xs) ==
    LET place(i) ==
            Cardinality({j \in 1..Len(xs) : xs[j] < xs[i] \/ (xs[j] = xs[i] /\ j < i)}) + 1
    IN  [k \in 1..Len(xs) |-> xs[CHOOSE i \in 1..Len(xs) : place(i) = k]]

\* levels[-n:]
LastOf(xs, n) == IF Len(xs) <= n THEN xs ELSE SubSeq(xs, Len(xs) - n + 1, Len(xs))

\* technical_analysis.identify_support_resistance(df): no row is read of a
\* frame of four rows or fewer
TA_identify_support_resistance(d) ==
    IF Len(d.rows) <= 4 THEN [kind |-> "levels", support |-> <<>>, resistance |-> <<>>]
    ELSE IF ~ ({"Low", "High"} \subseteq d.columns) THEN Raises("KeyError")
    ELSE [kind |-> "levels",
          support |-> LastOf(SortedValues(TurnValues(Column(d, "Low"), 3, -1)), KeptLevels),
          resistance |-> LastOf(SortedValues(TurnValues(Column(d, "High"), 3, 1)), KeptLevels)]

InitRecent ==
    /\ pc = "recent"
    /\ \E reach \in [1..Swinging.places -> Reaches], n \in {4, Swinging.rows},
          columns \in {{"Low", "High"}, {"Low"}} :
          df = [columns |-> columns, rows |-> [i \in 1..n |-> SwingingBar(i, reach)]]
    /\ mpp = NoModule
    /\ args = NoArgs
    /\ result = NoResult
    /\ NoRun
    /\ patterns = <<>>
    /\ support_resistance = NoLevels
    /\ config = DefaultConfig
    /\ signal_data = NoSignalData
    /\ summary = NoSummary
    /\ calls = <<>>
    /\ NotInAnalyzeData

\* support_levels, resistance_levels = identify_support_resistance(df)
IdentifyRecentLevels ==
    /\ pc = "recent"
    /\ result' = TA_identify_support_resistance(df)
    /\ pc' = "levels_found"
    /\ UNCHANGED <<df, patterns, support_resistance, config, signal_data, summary, calls,
                   app_vars, mpp, args, run_vars>>

NextRecent == IdentifyRecentLevels

SpecRecent == InitRecent /\ [][NextRecent]_vars

----------------------------------------------------------------------------
(* Claims about get_signal_summary *)

FiveRecommendations == {"Strong Buy", "Buy", "Neutral", "Sell", "Strong Sell"}

\* signal_data is a mapping whose strengths are numbers (or NaN) or absent
WellFormed(sd) == sd.kind = "dict" /\ ~ IsNone(sd.buy) /\ ~ IsNone(sd.sell)

(* C1: get_signal_summary classifies every pair of numeric strengths (in
   halves: 2 is 4): Strong Buy when buy > sell and buy >= 2, Buy when
   buy > sell and buy < 2, Strong Sell when sell > buy and sell >= 2, Sell
   when sell > buy and sell < 2, Neutral when they are equal; and it returns
   the strengths and the signal list it was given. *)
C1_SummaryClassifies ==
    (pc = "summarised" /\ signal_data.kind = "dict"
       /\ IsNum(signal_data.buy) /\ IsNum(signal_data.sell)) =>
        LET b == signal_data.buy.v
            s == signal_data.sell.v
            r == summary.recommendation
        IN  /\ (b > s /\ b >= 4) => r = "Strong Buy"
            /\ (b > s /\ b < 4) => r = "Buy"
            /\ (s > b /\ s >= 4) => r = "Strong Sell"
            /\ (s > b /\ s < 4) => r = "Sell"
            /\ (b = s) => r = "Neutral"
            /\ summary.buy_strength = signal_data.buy
            /\ summary.sell_strength = signal_data.sell
            /\ summary.signals = signal_data.signals

\* a buy strength of exactly 2 against a smaller sell strength gave Strong Buy
C1_Witness ==
    /\ pc = "summarised"
    /\ signal_data.kind = "dict"
    /\ signal_data.buy = Num(4)
    /\ signal_data.sell = Num(3)
    /\ Len(signal_data.signals) = 2
    /\ summary.recommendation = "Strong Buy"

(* C5 as stated: in every summary get_signal_summary returns, for any input,
   malformed ones included, the recommendation is one of Strong Buy, Buy,
   Neutral, Sell, Strong Sell. *)
C5_AlwaysOneOfFive ==
    pc = "summarised" => summary.recommendation \in FiveRecommendations

(* C5 as amended: for a signal_data that is a mapping whose strengths are
   numbers or absent the recommendation is one of the five; for a malformed
   one (no mapping, or a non-numeric strength) the summary is the one of the
   except path: recommendation "Error", zero strengths, no signals. *)
C5_OneOfFiveOrError ==
    pc = "summarised" =>
        IF WellFormed(signal_data)
        THEN summary.recommendation \in FiveRecommendations
        ELSE /\ summary.recommendation = "Error"
             /\ summary.buy_strength = Num(0)
             /\ summary.sell_strength = Num(0)
             /\ summary.signals = <<>>

\* a mapping with a non-numeric buy strength was summarised as "Error"
C5_Witness ==
    /\ pc = "summarised"
    /\ signal_data.kind = "dict"
    /\ IsNone(signal_data.buy)
    /\ IsNum(signal_data.sell)
    /\ summary.recommendation = "Error"

----------------------------------------------------------------------------
(* Claims about generate_signals *)

Returned == pc \in {"generated", "summarised"}

\* no cell of the frame is non-numeric, so no rule raises
NoNoneCell(d) == \A i \in 1..Len(d.rows) : \A c \in d.columns : ~ IsNone(d.rows[i][c])

CountEntries(sigs, type, rule) ==
    Cardinality({i \in 1..Len(sigs) : sigs[i].type = type /\ sigs[i].rule = rule})

\* a <= b and a >= b on numbers
LeNum(a, b) == IsNum(a) /\ IsNum(b) /\ a.v <= b.v
GeNum(a, b) == LeNum(b, a)

(* C3: the moving-average crossover rule contributes a buy exactly on a bar
   where the fast SMA was <= the slow SMA on the previous bar and is > it on
   the latest bar, and a sell exactly where fast was >= slow on the previous
   bar and is < slow on the latest bar, the case of equal averages on the
   previous bar included; on all other bars it contributes nothing. *)
C3_CrossoverFromAtOrBelow ==
    (Returned /\ NoNoneCell(df) /\ Len(df.rows) > 1
       /\ "sma_fast" \in df.columns /\ "sma_slow" \in df.columns) =>
        LET n == Len(df.rows)
            prev_fast == df.rows[n - 1]["sma_fast"]
            prev_slow == df.rows[n - 1]["sma_slow"]
            curr_fast == df.rows[n]["sma_fast"]
            curr_slow == df.rows[n]["sma_slow"]
        IN  /\ CountEntries(signal_data.signals, "buy", "sma")
                 = (IF LeNum(prev_fast, prev_slow) /\ Gt(curr_fast, curr_slow) THEN 1 ELSE 0)
            /\ CountEntries(signal_data.signals, "sell", "sma")
                 = (IF GeNum(prev_fast, prev_slow) /\ Lt(curr_fast, curr_slow) THEN 1 ELSE 0)

(* C2: crossover detection is edge-triggered: over a sequence of analysis
   calls on a growing series in which the fast SMA starts at or below the
   slow SMA (bars 1..k), rises above it once and stays above it (bars k+1..n),
   the SMA-crossover buy signal is emitted on exactly one call, the one whose
   latest bar is the crossing bar k+1, and on no other call. *)
C2_ExactlyOneBuyAtTheCrossingBar ==
    pc = "cycle" =>
        LET n == Len(df.rows)
            F(i) == df.rows[i]["sma_fast"]
            S(i) == df.rows[i]["sma_slow"]
        IN  \A k \in 1..(n - 1) :
                ((\A i \in 1..k : LeNum(F(i), S(i))) /\ (\A i \in (k + 1)..n : Gt(F(i), S(i))))
                    => \A i \in 1..n : calls[i].buy <=> (i = k + 1)

\* the weights of the claim, in halves: RSI 1, SMA crossover 1.5, MACD 1,
\* Bollinger 0.5, stochastic 0.5, 1 per pattern, 0.5 per level
C8_StatedWeight(rule) ==
    CASE rule = "rsi" -> 2
      [] rule = "sma" -> 3
      [] rule = "macd" -> 2
      [] rule = "bb" -> 1
      [] rule = "stoch" -> 1
      [] rule = "pattern" -> 2
      [] rule = "support" -> 1
      [] rule = "resistance" -> 1

RECURSIVE C8_SumOf(_, _, _)
C8_SumOf(sigs, type, i) ==
    IF i > Len(sigs) THEN 0
    ELSE (IF sigs[i].type = type THEN C8_StatedWeight(sigs[i].rule) ELSE 0)
         + C8_SumOf(sigs, type, i + 1)

(* C8: the buy and sell strengths generate_signals returns are the sums of
   the weights of the rules that fired in that direction, each of which
   appended one entry of that direction; so a strength is zero iff the list
   holds no entry of its direction. *)
C8_StrengthsAreWeightSums ==
    Returned =>
        /\ signal_data.buy = Num(C8_SumOf(signal_data.signals, "buy", 1))
        /\ signal_data.sell = Num(C8_SumOf(signal_data.signals, "sell", 1))
        /\ (signal_data.buy.v = 0) <=>
              (\A i \in 1..Len(signal_data.signals) : signal_data.signals[i].type # "buy")
        /\ (signal_data.sell.v = 0) <=>
              (\A i \in 1..Len(signal_data.signals) : signal_data.signals[i].type # "sell")

\* rules of several weights fired in both directions
C8_Witness ==
    /\ pc = "generated"
    /\ signal_data.buy.v = 9
    /\ signal_data.sell.v = 4
    /\ HasEntry(signal_data.signals, "buy", "sma")
    /\ HasEntry(signal_data.signals, "sell", "pattern")
    /\ HasEntry(signal_data.signals, "sell", "resistance")

C9_Rank(rule) ==
    CASE rule = "rsi" -> 1
      [] rule = "sma" -> 2
      [] rule = "macd" -> 3
      [] rule = "bb" -> 4
      [] rule = "stoch" -> 5
      [] rule = "pattern" -> 6
      [] rule = "support" -> 7
      [] rule = "resistance" -> 8

(* C9: the signal list keeps the order in which the rules are evaluated: RSI,
   moving average, MACD, Bollinger, stochastic, patterns (in the iteration
   order of the supplied patterns), support levels, resistance levels. *)
C9_RuleOrderKept ==
    Returned =>
        \A i, j \in 1..Len(signal_data.signals) :
            i < j =>
                LET a == signal_data.signals[i]
                    b == signal_data.signals[j]
                IN  /\ C9_Rank(a.rule) <= C9_Rank(b.rule)
                    /\ (a.rule = "pattern" /\ b.rule = "pattern") => a.val < b.val

\* a list with an entry of every rule but one, patterns and levels included
C9_Witness ==
    /\ pc = "generated"
    /\ Len(signal_data.signals) >= 8
    /\ HasEntry(signal_data.signals, "buy", "rsi")
    /\ HasEntry(signal_data.signals, "buy", "stoch")
    /\ CountEntries(signal_data.signals, "buy", "pattern") = 2
    /\ HasEntry(signal_data.signals, "buy", "support")
    /\ HasEntry(signal_data.signals, "sell", "resistance")

----------------------------------------------------------------------------
(* Claims about analyze_data and the components it calls *)

\* the statements of analyze_data in their order, as values of pc
Stages ==
    <<"indicators", "levels", "candles", "chart", "signals", "summary",
      "pub_data", "pub_time", "pub_levels", "pub_signals", "alerts">>

StageNo(p) == CHOOSE i \in 1..Len(Stages) : Stages[i] = p

\* analyze_data is running and the statement at stage p has been executed
Past(p) == pc # "idle" /\ StageNo(pc) > StageNo(p)

\* every bar has the same open, high, low and close
IsFlat(d) ==
    /\ Len(d.rows) > 0
    /\ \A i \in 1..Len(d.rows) : \A col \in {"open", "high", "low", "close"} :
           d.rows[i][col] = d.rows[1]["close"]

NeutralSummary(s) ==
    /\ s.recommendation = "Neutral"
    /\ s.buy_strength = Num(0)
    /\ s.sell_strength = Num(0)
    /\ s.signals = <<>>

(* C4: for an all-flat series (every bar has the same open, high, low and
   close), with no patterns and no levels supplied, generate_signals followed
   by get_signal_summary returns buy_strength 0, sell_strength 0,
   recommendation "Neutral" and an empty signal list. *)
C4_FlatSeriesIsNeutral ==
    (/\ Past("summary")
     /\ IsFlat(fetched)
     /\ patterns = <<>>
     /\ support_resistance.support = <<>>
     /\ support_resistance.resistance = <<>>)
        => NeutralSummary(summary)

(* C6: publication is atomic: whenever a consumer can observe the session
   state (analyze_data is not running: it returned or was interrupted), the
   published data, last_update, support_resistance and signals all belong to
   the same analysis call. *)
C6_PublishedValuesOfOneCall ==
    pc = "idle" =>
        /\ session.last_update = session.data
        /\ session.support_resistance = session.data
        /\ session.signals = session.data

(* C7: no core component mutates the caller's series: once add_indicators
   has returned, and after each later component, the frame object the caller
   passed in has exactly the columns and values it had before the call. *)
C7_CallerFrameUntouched ==
    Past("indicators") => df = fetched

(* C10: for an empty series each component returns its empty or neutral
   result: add_indicators an empty indicator set (the frame as it was),
   identify_support_resistance empty support and resistance lists, both
   pattern detectors no patterns, generate_signals zero strengths and an empty
   list, get_signal_summary on that "Neutral" with zero strengths. *)
C10_EmptySeriesGivesEmptyResults ==
    (pc # "idle" /\ Empty(fetched)) =>
        /\ Past("indicators") => (df = fetched /\ df.columns \cap (FirstColumns \cup LastColumns) = {})
        /\ Past("levels") =>
               (support_resistance.support = <<>> /\ support_resistance.resistance = <<>>)
        /\ Past("candles") => candlestick_patterns = <<>>
        /\ Past("chart") => (chart_patterns = <<>> /\ patterns = <<>>)
        /\ Past("signals") => signal_data = ZeroSignals
        /\ Past("summary") => NeutralSummary(summary)

\* an empty series has gone through every component
C10_Witness ==
    /\ pc = "alerts"
    /\ Empty(fetched)
    /\ summary.recommendation = "Neutral"
    /\ signal_data.kind = "dict"

----------------------------------------------------------------------------
(* Claims about the failure of a rule *)

(* C11: generate_signals never raises to its caller, and when evaluating one
   rule fails the result still contains the strengths and the signal entries
   contributed by the rules evaluated before the failure. *)
C11_PartialResultKept ==
    (Returned /\ ~ Empty(df)) =>
        LET a == RuleChain(df, patterns, support_resistance, config)
        IN  /\ signal_data.kind = "dict"
            /\ signal_data.buy = Num(a.buy)
            /\ signal_data.sell = Num(a.sell)
            /\ signal_data.signals = a.signals

\* the price columns an indicator column is computed from
Needs(col) == IF col \in LastColumns THEN {"high", "low", "close"} ELSE {"close"}

(* C12: when a required OHLCV column is absent, add_indicators does not
   raise: the frame comes back with its own columns as they were, an
   indicator column is present iff every price column it needs is there, and
   the present ones are computed (a number from the row on which their period
   is filled). *)
C12_OnlyAffectedIndicatorsSkipped ==
    pc = "levels" =>
        LET n == Len(df.rows)
        IN  /\ \A col \in FirstColumns \cup LastColumns :
                   col \in df.columns <=> Needs(col) \subseteq fetched.columns
            /\ fetched.columns \subseteq df.columns
            /\ n = Len(fetched.rows)
            /\ \A i \in 1..n : \A col \in fetched.columns : df.rows[i][col] = fetched.rows[i][col]
            /\ \A i \in 1..n : DOMAIN df.rows[i] = df.columns
            /\ "close" \in fetched.columns =>
                   /\ \A i \in Settings.sma_fast..n : IsNum(df.rows[i]["sma_fast"])
                   /\ \A i \in Settings.bbands_period..n :
                          IsNum(df.rows[i]["bb_upper"]) /\ IsNum(df.rows[i]["bb_lower"])
                   /\ \A i \in (Settings.rsi_period + 1)..n : IsNum(df.rows[i]["rsi"])

\* a frame without its high column: the close indicators are there, computed,
\* and the two that read high and low are not
C12_Witness ==
    /\ pc = "levels"
    /\ "high" \notin fetched.columns
    /\ Len(df.rows) >= Settings.bbands_period
    /\ IsNum(df.rows[Len(df.rows)]["bb_upper"])
    /\ "rsi" \in df.columns
    /\ "atr" \notin df.columns
    /\ "stoch_k" \notin df.columns

(* Claims about the optional pattern library *)
(* C13: when the optional pattern library m_patternpy is not installed,
   detect_candlestick_patterns and detect_chart_patterns do not fail: they
   return the data frame with the built-in pattern columns filled in by the
   built-in rules. *)
C13_FallsBackWithoutLibrary ==
    (pc \in {"candlesticks", "charts"} /\ ~ mpp.bound) =>
        /\ result.kind = "frame"
        /\ Len(result.frame.rows) = Len(df.rows)
        /\ pc = "candlesticks" =>
               \E writes \in BOOLEAN : \A i \in 1..Len(df.rows) : \A c \in pattern_columns :
                   result.frame.rows[i][c] = BuiltInCandle(df, i, writes)[c]
        /\ pc = "charts" =>
               \A i \in 1..Len(df.rows) : \A c \in chart_columns \cup {"trend"} :
                   result.frame.rows[i][c] = BuiltInChart(df, i, ChartWindow)[c]

(* Claims about what generate_signals reads *)
\* the longest series of other rows put before the last two
MaxPrefix == 1

\* rows a series may hold before its last two: buying, selling, non-numeric
PrefixRows == {BuyRows[1], SellRows[2], [c \in AllColumns |-> None]}

\* the series of the rows before, cut to the frame's columns, followed by the
\* frame's last two rows
SameLastTwo(d, before) ==
    LET n == Len(d.rows)
    IN  [columns |-> d.columns,
         rows |-> [i \in 1..Len(before) |-> [c \in d.columns |-> before[i][c]]]
                      \o <<d.rows[n - 1], d.rows[n]>>]

(* C14: the output of generate_signals depends only on the last two rows of
   the series, the patterns, the levels and the configuration: every series
   of at least two rows that agrees with the given one on its last two rows
   yields the same strengths and the same signal list. *)
C14_OnlyLastTwoRowsRead ==
    (pc = "generated" /\ Len(df.rows) >= 2) =>
        \A k \in 0..MaxPrefix : \A before \in [1..k -> PrefixRows] :
            generate_signals(SameLastTwo(df, before), patterns, support_resistance, config)
                = signal_data

\* a three-row series whose first row differs from the one before the last and
\* whose last two rows make rules fire
C14_Witness ==
    /\ pc = "generated"
    /\ Len(df.rows) = 3
    /\ df.rows[1] # df.rows[2]
    /\ signal_data.signals # <<>>
    /\ Gt(signal_data.buy, Num(0))

(* Claims about the single rules.  They are stated for the calls whose try
   block runs to its end (Completed). *)
\* the try block of the call ran to its end
Completed ==
    /\ pc = "generated"
    /\ ~ Empty(df)
    /\ ~ RuleChain(df, patterns, support_resistance, config).ex

\* the latest row's cell
Latest(col) == df.rows[Len(df.rows)][col]

(* C15: the RSI rule contributes a buy of weight 1 iff the latest RSI is
   strictly below the configured oversold threshold and a sell of weight 1
   iff it is strictly above the overbought threshold; never both on one
   call, and nothing when the RSI equals a threshold or lies between them.
   The contribution is measured against the same call on the frame without
   its rsi column. *)
C15_RsiRule ==
    (Completed /\ "rsi" \in df.columns) =>
        LET without == generate_signals(Without(df, {"rsi"}), patterns,
                                        support_resistance, config)
            buys == CountEntries(signal_data.signals, "buy", "rsi")
            sells == CountEntries(signal_data.signals, "sell", "rsi")
            rsi == Latest("rsi")
        IN  /\ buys = (IF IsNum(rsi) /\ rsi.v < config.rsi_oversold THEN 1 ELSE 0)
            /\ sells = (IF IsNum(rsi) /\ rsi.v > config.rsi_overbought THEN 1 ELSE 0)
            /\ buys + sells <= 1
            /\ signal_data.buy.v - without.buy.v = buys * C8_StatedWeight("rsi")
            /\ signal_data.sell.v - without.sell.v = sells * C8_StatedWeight("rsi")

\* an RSI below the oversold threshold of a configuration that is not the
\* default one, and above the default's
C15_Witness ==
    /\ Completed
    /\ "rsi" \in df.columns
    /\ IsNum(Latest("rsi"))
    /\ Latest("rsi").v < config.rsi_oversold
    /\ Latest("rsi").v > DefaultConfig.rsi_oversold
    /\ CountEntries(signal_data.signals, "buy", "rsi") = 1

(* C16: the Bollinger rule contributes a buy of weight 0.5 iff the latest
   close is within the configured percentage of the lower band (their
   distance, as a share of the close, is below the percentage) and a sell of
   weight 0.5 iff it is within the percentage of the upper band; a close far
   outside the bands, or inside them and farther than the percentage from
   both, contributes nothing.  The contribution is measured against the same
   call on the frame without its band columns. *)
C16_BollingerRule ==
    (Completed /\ {"bb_upper", "bb_lower", "close"} \subseteq df.columns) =>
        LET without == generate_signals(Without(df, {"bb_upper", "bb_lower"}), patterns,
                                        support_resistance, config)
            buys == CountEntries(signal_data.signals, "buy", "bb")
            sells == CountEntries(signal_data.signals, "sell", "bb")
            close == Latest("close")
            lower == Latest("bb_lower")
            upper == Latest("bb_upper")
        IN  /\ buys = (IF /\ IsNum(close) /\ IsNum(lower)
                          /\ 100 * Abs(close.v - lower.v) < config.lower_touch_percentage * close.v
                       THEN 1 ELSE 0)
            /\ sells = (IF /\ IsNum(close) /\ IsNum(upper)
                           /\ 100 * Abs(upper.v - close.v) < config.upper_touch_percentage * close.v
                        THEN 1 ELSE 0)
            /\ signal_data.buy.v - without.buy.v = buys * C8_StatedWeight("bb")
            /\ signal_data.sell.v - without.sell.v = sells * C8_StatedWeight("bb")

\* a close below the lower band and near it, far from the upper band
C16_Witness ==
    /\ Completed
    /\ {"bb_upper", "bb_lower", "close"} \subseteq df.columns
    /\ Gt(Latest("bb_lower"), Latest("close"))
    /\ CountEntries(signal_data.signals, "buy", "bb") = 1
    /\ CountEntries(signal_data.signals, "sell", "bb") = 0

\* the number of the levels of a list that satisfy a test
CountLevels(levels, Test(_)) == Cardinality({i \in 1..Len(levels) : Test(levels[i])})

(* C17: for every supplied support level generate_signals adds a buy of
   weight 0.5 iff the latest close is within 1% above that level (above it,
   by less than 1% of the close), and for every supplied resistance level a
   sell of weight 0.5 iff the close is within 1% below that level; each level
   is counted on its own, a level on the wrong side of the price contributes
   nothing, and n qualifying levels add n times 0.5.  The contribution is
   measured against the same call without levels. *)
C17_LevelRule ==
    (Completed /\ support_resistance.given /\ "close" \in df.columns) =>
        LET without == generate_signals(df, patterns, NoLevels, config)
            p == Latest("close")
            Above(l) == IsNum(p) /\ l.num < p.v * l.den
                                 /\ 100 * (p.v * l.den - l.num) < p.v * l.den
            Below(l) == IsNum(p) /\ l.num > p.v * l.den
                                 /\ 100 * (l.num - p.v * l.den) < p.v * l.den
            buys == CountLevels(support_resistance.support, Above)
            sells == CountLevels(support_resistance.resistance, Below)
        IN  /\ CountEntries(signal_data.signals, "buy", "support") = buys
            /\ CountEntries(signal_data.signals, "sell", "resistance") = sells
            /\ signal_data.buy.v - without.buy.v = buys * C8_StatedWeight("support")
            /\ signal_data.sell.v - without.sell.v = sells * C8_StatedWeight("resistance")

\* two supports within 1% below the close: two buys; the same two levels as
\* resistances are on the wrong side and add nothing
C17_Witness ==
    /\ Completed
    /\ Len(support_resistance.support) = 2
    /\ support_resistance.support[1] # support_resistance.support[2]
    /\ support_resistance.resistance = support_resistance.support
    /\ CountEntries(signal_data.signals, "buy", "support") = 2
    /\ CountEntries(signal_data.signals, "sell", "resistance") = 0
    /\ signal_data.buy.v = 2 * C8_StatedWeight("support")

\* the number of the patterns whose direction satisfies a test
CountPatterns(pats, Test(_)) == Cardinality({i \in 1..Len(pats) : Test(pats[i].direction)})

(* C18: every bullish pattern supplied to generate_signals (direction > 0)
   adds exactly 1 to buy_strength and one buy entry, every bearish pattern
   (direction < 0) adds exactly 1 to sell_strength and one sell entry, and a
   neutral pattern (direction 0) changes neither strength and adds no entry.
   The contribution is measured against the same call without patterns. *)
C18_PatternRule ==
    Completed =>
        LET without == generate_signals(df, <<>>, support_resistance, config)
            Bullish(dir) == dir > 0
            Bearish(dir) == dir < 0
            buys == CountPatterns(patterns, Bullish)
            sells == CountPatterns(patterns, Bearish)
        IN  /\ CountEntries(signal_data.signals, "buy", "pattern") = buys
            /\ CountEntries(signal_data.signals, "sell", "pattern") = sells
            /\ signal_data.buy.v - without.buy.v = buys * C8_StatedWeight("pattern")
            /\ signal_data.sell.v - without.sell.v = sells * C8_StatedWeight("pattern")
            /\ Len(signal_data.signals) - Len(without.signals) = buys + sells

\* a bullish and a neutral pattern: one buy entry, nothing else from patterns
C18_Witness ==
    /\ Completed
    /\ Len(patterns) = 2
    /\ patterns[1].direction > 0
    /\ patterns[2].direction = 0
    /\ CountEntries(signal_data.signals, "buy", "pattern") = 1
    /\ CountEntries(signal_data.signals, "sell", "pattern") = 0

(* Claims about the level detectors *)
\* the rows whose value is strictly beyond every one of the window rows
\* before and after them; none within window of either end
StrictSwings(xs, window, dir) ==
    {i \in (window + 1)..(Len(xs) - window) :
        \A j \in 1..window : /\ dir * xs[i].v > dir * xs[i - j].v
                             /\ dir * xs[i].v > dir * xs[i + j].v}

\* the values of the rows of S, in row order from row i on
RECURSIVE InRowOrder(_, _, _)
InRowOrder(xs, S, i) ==
    IF i > Len(xs) THEN <<>>
    ELSE (IF i \in S THEN <<xs[i].v>> ELSE <<>>) \o InRowOrder(xs, S, i + 1)

(* C19: in each of the two swing-point level detectors, bar i is recorded as
   a swing low iff its low is strictly less than the low of every bar in the
   window bars before it and the window bars after it (and as a swing high
   symmetrically), and no bar within window of either end of the series is
   recorded: the levels returned are those of exactly these bars. *)
C19_SwingsAreStrict ==
    /\ (pc = "identified" /\ {"low", "high"} \subseteq df.columns) =>
           /\ support_resistance.support =
                  cluster_levels(InRowOrder(Column(df, "low"),
                                            StrictSwings(Column(df, "low"), args.window, -1), 1),
                                 Settings.sr_threshold)
           /\ support_resistance.resistance =
                  cluster_levels(InRowOrder(Column(df, "high"),
                                            StrictSwings(Column(df, "high"), args.window, 1), 1),
                                 Settings.sr_threshold)
    /\ (pc = "calculated" /\ {"Low", "High"} \subseteq df.columns) =>
           /\ result.kind = "levels"
           /\ result.support =
                  SortedSet({Column(df, "Low")[i].v :
                                 i \in StrictSwings(Column(df, "Low"), args.window, -1)})
           /\ result.resistance =
                  SortedSet({Column(df, "High")[i].v :
                                 i \in StrictSwings(Column(df, "High"), args.window, 1)})

\* the reference procedure.  Sorting: the least remaining value first
RECURSIVE RefSort(_)
RefSort(s) ==
    IF Len(s) = 0 THEN <<>>
    ELSE LET i == CHOOSE k \in 1..Len(s) : \A j \in 1..Len(s) : s[k] <= s[j]
         IN  <<s[i]>> \o RefSort(SubSeq(s, 1, i - 1) \o SubSeq(s, i + 1, Len(s)))

RECURSIVE RefSum(_)
RefSum(s) == IF Len(s) = 0 THEN 0 ELSE Head(s) + RefSum(Tail(s))

\* the average of a cluster, as a fraction
RefAverage(cluster) == [num |-> RefSum(cluster), den |-> Len(cluster)]

\* x is within threshold (percent) of the cluster's running average:
\* |x - avg| / avg <= threshold / 100
RefJoins(x, cluster, threshold) ==
    100 * Abs(x * Len(cluster) - RefSum(cluster)) <= threshold * RefSum(cluster)

\* the clusters of the sorted values from the i-th on, the current one being cluster
RECURSIVE RefClusters(_, _, _, _)
RefClusters(sorted, i, cluster, threshold) ==
    IF i > Len(sorted) THEN <<RefAverage(cluster)>>
    ELSE IF RefJoins(sorted[i], cluster, threshold)
         THEN RefClusters(sorted, i + 1, Append(cluster, sorted[i]), threshold)
    ELSE <<RefAverage(cluster)>> \o RefClusters(sorted, i + 1, <<sorted[i]>>, threshold)

Reference(levels, threshold) ==
    IF Len(levels) = 0 THEN <<>>
    ELSE RefClusters(RefSort(levels), 2, <<RefSort(levels)[1]>>, threshold)

(* C20: for any list of positive swing values and any threshold,
   cluster_levels returns what the reference procedure returns (sort
   ascending; start a cluster with the first value; add each next value to
   the current cluster when its relative distance from the cluster's running
   average is <= threshold, otherwise emit the cluster's average and start a
   new cluster; emit the last cluster); the levels emitted are in ascending
   order and at most as many as the input values. *)
C20_ClusterLevelsIsReference ==
    pc = "clustered" =>
        /\ result.value = Reference(args.levels, args.threshold_pct)
        /\ \A i \in 1..Len(result.value) : \A j \in 1..Len(result.value) :
               i < j => result.value[i].num * result.value[j].den
                            <= result.value[j].num * result.value[i].den
        /\ Len(result.value) <= Len(args.levels)

\* values given out of order that end in two clusters, the first of which
\* took a value in because of its running average
C20_Witness ==
    /\ pc = "clustered"
    /\ args.levels = <<103, 100, 110, 102>>
    /\ args.threshold_pct = 2
    /\ result.value = <<[num |-> 305, den |-> 3], [num |-> 110, den |-> 1]>>

\* two fractions of the same value
SameValue(a, b) == a.num * b.den = b.num * a.den

(* C21: level clustering is idempotent: for any list of positive levels and
   any threshold, cluster_levels applied to the output of cluster_levels with
   the same threshold returns that same output. *)
C21_ClusteringIsIdempotent ==
    pc = "reclustered" =>
        /\ Len(result.value) = Len(args.levels)
        /\ \A i \in 1..Len(result.value) : SameValue(result.value[i], args.levels[i])

\* a first output of two levels, one of them the average of three values,
\* clustered again
C21_Witness ==
    /\ pc = "reclustered"
    /\ Len(args.levels) = 2
    /\ args.levels[1].den = 3
    /\ Len(result.value) = 2
    /\ 100 * (args.levels[2].num * args.levels[1].den - args.levels[1].num * args.levels[2].den)
           < 3 * args.levels[1].num * args.levels[2].den

(* Claims about the chart patterns *)
\* the values of a column in rows from..to
Stretch(d, col, from, to) == [i \in 1..(to - from + 1) |-> d.rows[from + i - 1][col].v]

\* the closes of the trailing lookback rows, which PatternDetection looks at
TrailingCloses == Stretch(df, "close", Len(df.rows) - args.lookback + 1, Len(df.rows))

\* the rows pattern_recognition looks at for the latest row: the 2 * window
\* rows before it
RowsBefore(col) == Stretch(df, col, Len(df.rows) - 2 * args.window, Len(df.rows) - 1)

\* a local high (dir = 1) or low (dir = -1): beyond both of its neighbours
LocalTurn(xs, i, dir) ==
    /\ 1 < i /\ i < Len(xs)
    /\ dir * xs[i] > dir * xs[i - 1]
    /\ dir * xs[i] > dir * xs[i + 1]

\* two local highs of equal value with a bar between them whose low is at
\* least 2% below them
EqualHighsOverTrough(highs, lows) ==
    \E p1 \in 1..Len(highs), p2 \in 1..Len(highs) :
        /\ p1 < p2
        /\ LocalTurn(highs, p1, 1) /\ LocalTurn(highs, p2, 1)
        /\ highs[p1] = highs[p2]
        /\ \E t \in (p1 + 1)..(p2 - 1) : 100 * lows[t] <= 98 * highs[p1]

\* the detector of PatternDetection was given a series it reads
ChartDetected ==
    pc = "detected_chart" /\ "close" \in df.columns /\ Len(df.rows) >= args.lookback

\* the detector of pattern_recognition was given a series it reads
ChartRecognised ==
    pc = "recognised_chart" /\ CandleColumns \subseteq df.columns
                            /\ Len(df.rows) > 2 * args.window

(* C22: given a series whose trailing lookback window contains two local
   highs of equal value separated by a trough at least 2% below both,
   detect_chart_patterns reports a Double Top, with polarity -1: as the entry
   'Double Top': -1 of PatternDetection's dict, as double_top = True on the
   latest row of pattern_recognition's frame. *)
C22_DoubleTopReported ==
    /\ (ChartDetected /\ EqualHighsOverTrough(TrailingCloses, TrailingCloses)) =>
           \E i \in 1..Len(chart_patterns) : chart_patterns[i] = Pattern("Double Top", -1)
    /\ (ChartRecognised /\ EqualHighsOverTrough(RowsBefore("High"), RowsBefore("Low"))) =>
           /\ result.kind = "frame"
           /\ result.frame.rows[Len(df.rows)]["double_top"] = TRUE

\* two local extrema of the series (highs for dir = 1, lows for dir = -1)
\* within 2% of one another, and between them an opposing local extremum at
\* least 2% beyond both
OpposedPair(same, opposing, dir) ==
    \E p1 \in 1..Len(same), p2 \in 1..Len(same) :
        /\ p1 < p2
        /\ LocalTurn(same, p1, dir) /\ LocalTurn(same, p2, dir)
        /\ Within(same[p1], same[p2], 2)
        /\ \E t \in (p1 + 1)..(p2 - 1) :
               /\ LocalTurn(opposing, t, -dir)
               /\ dir * 100 * opposing[t] <= dir * (100 - 2 * dir) * same[p1]
               /\ dir * 100 * opposing[t] <= dir * (100 - 2 * dir) * same[p2]

\* the built-in rules of pattern_recognition ran, not the library's detector
BuiltInRecognised == ChartRecognised /\ result.kind = "frame" /\ mpp = BareModule

(* C23: a Double Top (Double Bottom) is reported only when, besides two local
   highs (lows) within the threshold of one another, an opposing local low
   (high) of sufficient depth lies between them. *)
C23_OnlyOverAnOpposingExtremum ==
    /\ ChartDetected =>
           \A i \in 1..Len(chart_patterns) :
               /\ chart_patterns[i].name = "Double Top" =>
                      OpposedPair(TrailingCloses, TrailingCloses, 1)
               /\ chart_patterns[i].name = "Double Bottom" =>
                      OpposedPair(TrailingCloses, TrailingCloses, -1)
    /\ BuiltInRecognised =>
           /\ result.frame.rows[Len(df.rows)]["double_top"] =>
                  OpposedPair(RowsBefore("High"), RowsBefore("Low"), 1)
           /\ result.frame.rows[Len(df.rows)]["double_bottom"] =>
                  OpposedPair(RowsBefore("Low"), RowsBefore("High"), -1)

\* no two entries of a dict of patterns have the same name
OneEntryPerName(ps) ==
    \A i \in 1..Len(ps), j \in 1..Len(ps) : ps[i].name = ps[j].name => i = j

\* the polarity of every chart pattern
ChartPolarity ==
    [n \in {"Double Top", "Double Bottom", "Head and Shoulders",
            "Inverse Head and Shoulders", "Ascending Triangle", "Descending Triangle"} |->
        IF n \in {"Double Bottom", "Inverse Head and Shoulders", "Ascending Triangle"}
        THEN 1 ELSE -1]

(* C24: the pattern detectors return at most one entry per pattern name and
   never an entry of polarity 0, and every chart pattern has one polarity:
   Double Top -1, Double Bottom +1, Head and Shoulders -1, Inverse Head and
   Shoulders +1, Ascending Triangle +1, Descending Triangle -1. *)
C24_OneEntryPerNameWithItsPolarity ==
    /\ OneEntryPerName(candlestick_patterns)
    /\ OneEntryPerName(chart_patterns)
    /\ \A i \in 1..Len(candlestick_patterns) : candlestick_patterns[i].direction # 0
    /\ \A i \in 1..Len(chart_patterns) :
           /\ chart_patterns[i].name \in DOMAIN ChartPolarity
           /\ chart_patterns[i].direction = ChartPolarity[chart_patterns[i].name]

\* three chart patterns found at once, of both polarities
C24_Witness ==
    /\ pc = "detected_chart"
    /\ Len(chart_patterns) >= 3
    /\ \E i \in 1..Len(chart_patterns) : chart_patterns[i].direction = 1
    /\ \E i \in 1..Len(chart_patterns) : chart_patterns[i].direction = -1

(* Claims about the alerts *)
\* a strength below the threshold in one run and at or above it in the next
Crosses(before, now) ==
    /\ ~ Ge(before, Num(Settings.alert_threshold))
    /\ Ge(now, Num(Settings.alert_threshold))

\* a strength at or above the threshold in one run and in the next
Stays(before, now) ==
    /\ Ge(before, Num(Settings.alert_threshold))
    /\ Ge(now, Num(Settings.alert_threshold))

\* run i and the run before it both came to a summary
BothAnalysed(i) == cycles[i - 1].analysed /\ cycles[i].analysed

(* C25: over the runs of the script, an alert is sent only in a run whose
   recommendation differs from that of the run before or in which the buy or
   the sell strength crosses the threshold (below it in the run before, at or
   above it now); a strength that stays at or above the threshold from one
   run to the next auto-refresh run does not give an alert in each. *)
C25_AlertOnlyOnChangeOrCrossing ==
    \A i \in 2..Len(cycles) :
        /\ (BothAnalysed(i) /\ cycles[i].sends > 0) =>
               \/ cycles[i].recommendation # cycles[i - 1].recommendation
               \/ Crosses(cycles[i - 1].buy_strength, cycles[i].buy_strength)
               \/ Crosses(cycles[i - 1].sell_strength, cycles[i].sell_strength)
        /\ ( /\ BothAnalysed(i)
             /\ cycles[i].trigger = "auto"
             /\ \/ Stays(cycles[i - 1].buy_strength, cycles[i].buy_strength)
                \/ Stays(cycles[i - 1].sell_strength, cycles[i].sell_strength) ) =>
               ~ (cycles[i - 1].sends > 0 /\ cycles[i].sends > 0)

\* run i began with the flag reset: the first run, "Refresh Data", auto-refresh
BeganWithReset(i) == cycles[i].trigger \in {"first", "button", "auto"}

(* C26: between two resets of alert_sent (the button "Refresh Data", or the
   auto-refresh) analyze_data attempts at most one send, and only with alerts
   enabled, the flag false and a strength at or above the threshold; after an
   attempt the flag is true whether or not the message was delivered, so a
   send that failed is not tried again before the next reset. *)
C26_OneAttemptBetweenResets ==
    /\ \A i \in 1..Len(cycles) : cycles[i].sends <= 1
    /\ \A i \in 1..Len(cycles), j \in 1..Len(cycles) :
           (i < j /\ cycles[i].sends > 0 /\ cycles[j].sends > 0) =>
               \E k \in (i + 1)..j : BeganWithReset(k)
    /\ pc = "sent" => (session.enable_alerts /\ ~ session.alert_sent /\ AtThreshold(summary))
    /\ (pc = "shown" /\ LastCycle.sends > 0) => session.alert_sent

(* Claims about the chunks of get_historical_data *)
\* day d is within the range of request r, both ends included
InChunk(d, r) == r.start_date <= d /\ d <= r.end_date

(* C27: for every start_date before end_date the chunk requests made by
   get_historical_data have date ranges, both ends included, of which no two
   share a date and which together hold every date from start_date to
   end_date. *)
C27_ChunksDisjointAndCovering ==
    (pc = "returned" /\ args.start_dt < args.end_dt) =>
        /\ \A i \in 1..Len(requests), j \in 1..Len(requests) :
               i # j => ~ \E d \in args.start_dt..args.end_dt :
                            InChunk(d, requests[i]) /\ InChunk(d, requests[j])
        /\ \A d \in args.start_dt..args.end_dt :
               \E i \in 1..Len(requests) : InChunk(d, requests[i])

\* the rows of the chunks that were answered, in the order of the requests
RECURSIVE RowsUpTo(_, _)
RowsUpTo(rs, n) ==
    IF n = 0 THEN <<>>
    ELSE RowsUpTo(rs, n - 1) \o
             (IF rs[n].outcome = "ok"
              THEN [i \in 1..Len(rs[n].quotes) |-> FormatQuote(rs[n].quotes[i])]
              ELSE <<>>)

RowsOf(rs) == RowsUpTo(rs, Len(rs))

SortedByTimestamp(rows) ==
    \A i \in 1..Len(rows), j \in 1..Len(rows) : i < j => rows[i].timestamp <= rows[j].timestamp

SameRows(a, b) == Len(a) = Len(b) /\ {a[i] : i \in 1..Len(a)} = {b[i] : i \in 1..Len(b)}

\* the rows collected are those of the chunks answered, a chunk that failed
\* has added and removed none, and the loop stands one day after the last
\* chunk asked for; what is returned are these rows by timestamp
ChunksKept ==
    /\ all_data = RowsOf(requests)
    /\ requests # <<>> =>
           /\ current_start = requests[Len(requests)].end_date + 1
           /\ requests[Len(requests)].start_date < current_start
    /\ pc = "returned" =>
           /\ result.kind = "frame"
           /\ SameRows(result.frame.rows, RowsOf(requests))
           /\ SortedByTimestamp(result.frame.rows)
           /\ ( \/ ~ (args.start_dt < args.end_dt)
                \/ \A i \in 1..Len(requests) : requests[i].outcome = "error" ) =>
                  Empty(result.frame)

(* C28: a request that fails in one chunk leaves the rows of the earlier
   chunks as they are and the loop goes on to the next chunk; the loop ends;
   the function returns the rows of every chunk that was answered, sorted by
   timestamp (an empty frame when every chunk fails or start_date is not
   before end_date). *)
C28_FailedChunkIsSkipped == [] ChunksKept /\ <> (pc = "returned")

\* rows were collected, a later chunk failed, a chunk after it was answered
\* out of order, and the function has returned
C28_Witness ==
    /\ pc = "returned"
    /\ Len(requests) = 3
    /\ requests[1].outcome = "ok" /\ Len(requests[1].quotes) = 2
    /\ requests[2].outcome = "error"
    /\ requests[3].outcome = "ok" /\ Len(requests[3].quotes) = 2
    /\ requests[3].quotes[1].date > requests[3].quotes[2].date
    /\ Len(result.frame.rows) = 4

(* Claims about the fetch attempts of working_latest *)
(* C29: on a weekday main calls fetch_gold_data at most 3 times and not
   again after the first result that is not empty, and where all three
   results are empty it takes the fallback data, so that neither
   calculate_indicators nor generate_signals is run on an empty frame. *)
C29_AtMostThreeFetches ==
    /\ args.weekday =>
           /\ Len(fetches) <= 3
           /\ \A i \in 1..(Len(fetches) - 1) : Empty(fetches[i])
           /\ ( /\ pc = "indicators"
                /\ Len(fetches) = 3
                /\ \A i \in 1..3 : Empty(fetches[i]) ) => df \in FallbackData
    /\ pc \in {"indicators", "signals"} => ~ Empty(df)

\* three empty results on a weekday, and the fallback data about to be handed
\* to calculate_indicators
C29_Witness ==
    /\ args.weekday
    /\ pc = "indicators"
    /\ Len(fetches) = 3
    /\ \A i \in 1..3 : Empty(fetches[i])
    /\ df \in FallbackData

(* Claims about the levels of technical_analysis *)
\* two lists with the same values, each as often in the one as in the other
SameValues(a, b) ==
    /\ Len(a) = Len(b)
    /\ \A v \in {a[i] : i \in 1..Len(a)} :
           Cardinality({i \in 1..Len(a) : a[i] = v}) = Cardinality({i \in 1..Len(b) : b[i] = v})

(* C30: technical_analysis.identify_support_resistance returns at most five
   support and at most five resistance levels, and where there are more than
   five swing points the five it keeps are the most recent ones, those of the
   highest bar indices. *)
C30_FiveMostRecentLevels ==
    (pc = "levels_found" /\ result.kind = "levels") =>
        /\ Len(result.support) <= 5
        /\ Len(result.resistance) <= 5
        /\ Len(df.rows) > 4 =>
               /\ Len(TurnValues(Column(df, "Low"), 3, -1)) > 5 =>
                      SameValues(result.support, LastOf(TurnValues(Column(df, "Low"), 3, -1), 5))
               /\ Len(TurnValues(Column(df, "High"), 3, 1)) > 5 =>
                      SameValues(result.resistance,
                                 LastOf(TurnValues(Column(df, "High"), 3, 1), 5))

====
